---- MODULE Spec2Model ----
(***************************************************************************)
(* UECS-CCM bridge: the safety-guarded command sender (ccm_sender.py), the *)
(* latest-value cache (cache.py), the packet codec (ccm_protocol.py), the  *)
(* receive loop (ccm_receiver.py) and the set_actuator tool (server.py),   *)
(* as state machines.                                                      *)
(*                                                                         *)
(* Strings are tuples of one-character strings, so that substring tests,   *)
(* string formatting and sorting are computed character by character.      *)
(* Clocks count whole seconds.                                             *)
(***************************************************************************)
EXTENDS Integers, Sequences, FiniteSets, TLC

----------------------------------------------------------------------------
(* Strings *)

\* The characters used by the model, in code-point order.
CodePoints ==
    << "-", ".", "0", "1", "2", "3", "4", "5", "6", "7", "8", "9", ":",
       "A", "B", "C", "D", "E", "F", "G", "H", "I", "J", "K", "L", "M",
       "N", "O", "P", "Q", "R", "S", "T", "U", "V", "W", "X", "Y", "Z",
       "a", "b", "c", "d", "e", "f", "g", "h", "i", "j", "k", "l", "m",
       "n", "o", "p", "q", "r", "s", "t", "u", "v", "w", "x", "y", "z" >>

OrdTable ==
    [c \in { CodePoints[i] : i \in 1..Len(CodePoints) } |->
        CHOOSE i \in 1..Len(CodePoints) : CodePoints[i] = c]

Ord(c) == OrdTable[c]

\* Python's str < str: lexicographic by code point.
RECURSIVE StrLess(_, _)
StrLess(a, b) ==
    IF b = <<>> THEN FALSE
    ELSE IF a = <<>> THEN TRUE
    ELSE IF a[1] = b[1] THEN StrLess(Tail(a), Tail(b))
    ELSE Ord(a[1]) < Ord(b[1])

\* Python's sorted() of a set of strings: the ascending list.
RECURSIVE sorted(_)
sorted(S) ==
    IF S = {} THEN <<>>
    ELSE LET m == CHOOSE x \in S : \A y \in S \ {x} : StrLess(x, y)
         IN  <<m>> \o sorted(S \ {m})

\* Python's `sub in s` for strings.
Contains(sub, s) ==
    \E i \in 0..(Len(s) - Len(sub)) : SubSeq(s, i + 1, i + Len(sub)) = sub

DigitChar(d) == << "0", "1", "2", "3", "4", "5", "6", "7", "8", "9" >>[d + 1]

RECURSIVE NatToStr(_)
NatToStr(n) ==
    IF n < 10 THEN << DigitChar(n) >>
    ELSE NatToStr(n \div 10) \o << DigitChar(n % 10) >>

\* Python's str(int), as f"{n}" renders it.
IntToStr(n) == IF n < 0 THEN << "-" >> \o NatToStr(-n) ELSE NatToStr(n)

----------------------------------------------------------------------------
(* Type names *)

T_Irri == <<"I", "r", "r", "i">>
T_VenFan == <<"V", "e", "n", "F", "a", "n">>
T_IrrircA == <<"I", "r", "r", "i", "r", "c", "A">>
T_InAirTemp == <<"I", "n", "A", "i", "r", "T", "e", "m", "p">>
T_WAirTemp == <<"W", "A", "i", "r", "T", "e", "m", "p">>
T_CustomA == <<"C", "u", "s", "t", "o", "m", "A">>
T_testFLOW == <<"t", "e", "s", "t", "F", "L", "O", "W">>

DefaultAllowedActuators ==
    { <<"I", "r", "r", "i">>,
      <<"V", "e", "n", "F", "a", "n">>,
      <<"C", "i", "r", "H", "o", "r", "i", "F", "a", "n">>,
      <<"A", "i", "r", "H", "e", "a", "t", "B", "u", "r", "n">>,
      <<"A", "i", "r", "H", "e", "a", "t", "H", "P">>,
      <<"C", "O", "2", "B", "u", "r", "n">>,
      <<"V", "e", "n", "R", "f", "W", "i", "n">>,
      <<"V", "e", "n", "S", "d", "W", "i", "n">>,
      <<"T", "h", "C", "r", "t", "n">>,
      <<"L", "s", "C", "r", "t", "n">>,
      <<"A", "i", "r", "C", "o", "o", "l", "H", "P">>,
      <<"A", "i", "r", "H", "u", "m", "F", "o", "g">> }

SENSOR_TYPES ==
    { <<"I", "n", "A", "i", "r", "T", "e", "m", "p">>,
      <<"I", "n", "A", "i", "r", "H", "u", "m", "i", "d">>,
      <<"I", "n", "A", "i", "r", "C", "O", "2">>,
      <<"S", "o", "i", "l", "T", "e", "m", "p">>,
      <<"I", "n", "R", "a", "d", "i", "a", "t", "i", "o", "n">>,
      <<"S", "o", "i", "l", "E", "C">>,
      <<"S", "o", "i", "l", "M", "o", "i", "s", "t", "u", "r", "e">>,
      <<"P", "u", "l", "s", "e">> }

ACTUATOR_TYPES ==
    { <<"I", "r", "r", "i", "r", "c", "A">>,
      <<"I", "r", "r", "i", "o", "p", "r">>,
      <<"V", "e", "n", "F", "a", "n", "r", "c", "A">>,
      <<"C", "u", "r", "t", "a", "i", "n", "r", "c", "A">>,
      <<"M", "i", "s", "t", "r", "c", "A">>,
      <<"C", "O", "2", "r", "c", "A">>,
      <<"S", "i", "d", "e", "W", "i", "n", "r", "c", "A">>,
      <<"H", "e", "a", "t", "r", "c", "A">>,
      <<"C", "i", "r", "c", "F", "a", "n", "r", "c", "A">>,
      <<"V", "e", "n", "t", "r", "c", "A">> }

WEATHER_TYPES ==
    { <<"W", "A", "i", "r", "T", "e", "m", "p">>,
      <<"W", "A", "i", "r", "H", "u", "m", "i", "d">>,
      <<"W", "W", "i", "n", "d", "S", "p", "e", "e", "d">>,
      <<"W", "W", "i", "n", "d", "D", "i", "r", "1", "6">>,
      <<"W", "R", "a", "i", "n", "f", "a", "l", "l">>,
      <<"W", "R", "a", "i", "n", "f", "a", "l", "l", "A", "m", "t">> }

----------------------------------------------------------------------------
(* Bounds and inputs *)

MaxClock == 3       \* the monotonic clock runs from 0 to MaxClock
MaxCalls == 2       \* calls made on the sender's public methods
MaxLatency == 1     \* seconds that may pass between send's two clock readings

\* The marker of irrigation-class types in send_with_duration.
IrriMarker == << "I", "r", "r", "i" >>

\* The (type, room) pairs commands are issued for: IrrircA is a type the
\* cache knows and no allowed set holds.
Targets == { << T_Irri, 1 >>, << T_Irri, 2 >>, << T_VenFan, 1 >>, << T_IrrircA, 1 >> }
Values == { 0, 1 }
KwArgs ==
    { [region |-> 1, order |-> 1, priority |-> 10],
      [region |-> 2, order |-> 3, priority |-> 1] }
\* send's defaults: region=1, order=1, priority=10.
DefaultKw == [region |-> 1, order |-> 1, priority |-> 10]
Durations == { 1, 2 }

\* SafetyLimits(...) as the sender may be constructed with.
LimitsChoices ==
    { [allowed_actuators |-> DefaultAllowedActuators,
       min_send_interval_seconds |-> m,
       max_irrigation_duration_seconds |-> 1] : m \in { 0, 1, 2 } }
    \cup
    { [allowed_actuators |-> { T_VenFan },
       min_send_interval_seconds |-> 1,
       max_irrigation_duration_seconds |-> 1] }

\* sorted(allowed_actuators) of each allowed set, computed once.
SortedAllowed ==
    [S \in { l.allowed_actuators : l \in LimitsChoices } |-> sorted(S)]

----------------------------------------------------------------------------
(* State *)

VARIABLES
    limits,          \* CcmSender.limits
    mono,            \* time.monotonic()
    last_send_time,  \* CcmSender._last_send_time
    off_timers,      \* CcmSender._off_timers: timer key -> task
    tasks,           \* the asyncio tasks created for _auto_off, by number
    wire,            \* the datagrams handed to the UDP socket, in order
    lastCall,        \* the latest call of send / send_with_duration and its outcome
    calls,           \* how many such calls were made
    origin,          \* for each task, the send_with_duration call that created it
    thr,             \* the threads inside send: where each is, and with what
    wall,            \* datetime.now(timezone.utc)
    data,            \* SensorCache._data: (house_id, ccm_type) -> CacheEntry
    nodes,           \* SensorCache._nodes: the NodeInfo records, in insertion order
    upd,             \* the threads inside update: where each is, and with what
    applied,         \* the updates applied so far, in the order they took the lock
    held,            \* what a caller of the cache's reads holds: the objects returned
    proto,           \* the latest call of a ccm_protocol function and what it returned
    tool,            \* the latest call of a server tool and how it ended
    rx               \* the receiver: its loop, its socket and its stop

senderVars ==
    << limits, mono, last_send_time, off_timers, tasks, wire, lastCall, calls, origin >>

cacheVars == << wall, data, nodes, upd, applied >>

extVars == << held, proto, tool, rx >>

vars == << senderVars, thr, cacheVars, extVars >>

Threads == { "t1", "t2" }

NoCall == [op |-> "none"]

Writers == { "w1", "w2" }

\* SensorCache(): both maps empty.
CacheInit ==
    /\ wall = 0
    /\ data = << >>
    /\ nodes = << >>
    /\ upd = [w \in Writers |-> [pc |-> "idle"]]
    /\ applied = << >>

SenderStart ==
    /\ limits \in LimitsChoices
    /\ mono \in 0..MaxClock
    /\ last_send_time = 0
    /\ off_timers = << >>
    /\ tasks = << >>
    /\ wire = << >>
    /\ lastCall = NoCall
    /\ calls = 0
    /\ origin = << >>
    /\ thr = [t \in Threads |-> [pc |-> "idle"]]

\* Nothing was read, parsed, built or asked of the server yet.
ExtInit ==
    /\ held = NoCall
    /\ proto = NoCall
    /\ tool = NoCall
    /\ rx = NoCall

SenderInit == SenderStart /\ CacheInit /\ ExtInit

----------------------------------------------------------------------------
(* CcmSender.send *)

\* A faulty allowlist test: a type passes when an allowed name occurs in it.
IsAllowedBySubstring(ccm_type) ==
    \E a \in limits.allowed_actuators : Contains(a, ccm_type)

IsAllowed(ccm_type) == ccm_type \in limits.allowed_actuators

\* A faulty rate check: the interval's last instant is still rejected.
RateLimitedInclusive(now) ==
    now - last_send_time <= limits.min_send_interval_seconds

RateLimited(now) == now - last_send_time < limits.min_send_interval_seconds

\* A faulty rate check: a priority-1 command is let through.
SendResultEmergencyFirst(ccm_type, value, room, kw, sockOk) ==
    IF ~IsAllowed(ccm_type)
    THEN [kind |-> "not_allowed", ccm_type |-> ccm_type,
          listed |-> SortedAllowed[limits.allowed_actuators]]
    ELSE IF RateLimited(mono) /\ kw.priority # 1
    THEN [kind |-> "rate_limited", elapsed |-> mono - last_send_time,
          minimum |-> limits.min_send_interval_seconds]
    ELSE IF ~sockOk
    THEN [kind |-> "oserror"]
    ELSE [kind |-> "ok", ccm_type |-> ccm_type,
          state |-> IF value # 0 THEN "ON" ELSE "OFF",
          priority |-> kw.priority, room |-> room, auto_off |-> -1]

\* What send returns or raises, called when the clock reads `mono`; sockOk
\* tells whether the socket calls go through (they raise OSError otherwise).
SendResult(ccm_type, value, room, kw, sockOk) ==
    IF ~IsAllowed(ccm_type)
    THEN [kind |-> "not_allowed", ccm_type |-> ccm_type,
          listed |-> SortedAllowed[limits.allowed_actuators]]
    ELSE IF RateLimited(mono)
    THEN [kind |-> "rate_limited", elapsed |-> mono - last_send_time,
          minimum |-> limits.min_send_interval_seconds]
    ELSE IF ~sockOk
    THEN [kind |-> "oserror"]
    ELSE [kind |-> "ok", ccm_type |-> ccm_type,
          state |-> IF value # 0 THEN "ON" ELSE "OFF",
          priority |-> kw.priority, room |-> room, auto_off |-> -1]

\* The datagram send transmits: the fields build_ccm_xml renders, with the
\* clock reading at the transmission (at) and at send's return (done).
Datagram(ccm_type, value, room, kw, at, done) ==
    [ccm_type |-> ccm_type, value |-> value, room |-> room,
     region |-> kw.region, order |-> kw.order, priority |-> kw.priority,
     at |-> at, done |-> done]

\* A faulty send: the time of every attempt is recorded.
SendRecordsAttempt(res, ccm_type, value, room, kw, lat) ==
    IF res.kind = "ok"
    THEN /\ wire' = Append(wire, Datagram(ccm_type, value, room, kw, mono, mono + lat))
         /\ mono' = mono + lat
         /\ last_send_time' = mono + lat
    ELSE /\ last_send_time' = mono
         /\ UNCHANGED << wire, mono >>

\* What send does to the sender and the network, given its result.
Send(res, ccm_type, value, room, kw, lat) ==
    IF res.kind = "ok"
    THEN /\ wire' = Append(wire, Datagram(ccm_type, value, room, kw, mono, mono + lat))
         /\ mono' = mono + lat
         /\ last_send_time' = mono + lat
    ELSE UNCHANGED << wire, mono, last_send_time >>

\* A faulty send: a command for an actuator cancels its pending auto-off.
SendBodyCancelling(ccm_type, value, room, kw, sockOk, lat) ==
    /\ calls < MaxCalls
    /\ mono + lat <= MaxClock
    /\ LET res == SendResult(ccm_type, value, room, kw, sockOk)
       IN  /\ Send(res, ccm_type, value, room, kw, lat)
           /\ lastCall' = [op |-> "send", ccm_type |-> ccm_type, value |-> value,
                           room |-> room, kw |-> kw, duration |-> 0,
                           at |-> mono, result |-> res]
    /\ calls' = calls + 1
    /\ tasks' = [i \in DOMAIN tasks |->
                   IF /\ tasks[i].room = room
                      /\ tasks[i].ccm_type = ccm_type
                      /\ tasks[i].state = "sleeping"
                   THEN [tasks[i] EXCEPT !.state = "cancelled", !.cancelled_at = mono]
                   ELSE tasks[i]]
    /\ UNCHANGED << limits, off_timers, origin, thr, cacheVars >>

\* send, as it acts on the sender whoever calls it.
SendBody(ccm_type, value, room, kw, sockOk, lat) ==
    /\ calls < MaxCalls
    /\ mono + lat <= MaxClock
    /\ LET res == SendResult(ccm_type, value, room, kw, sockOk)
       IN  /\ Send(res, ccm_type, value, room, kw, lat)
           /\ lastCall' = [op |-> "send", ccm_type |-> ccm_type, value |-> value,
                           room |-> room, kw |-> kw, duration |-> 0,
                           at |-> mono, result |-> res]
    /\ calls' = calls + 1
    /\ UNCHANGED << limits, off_timers, tasks, origin, thr, cacheVars >>

SendCall(ccm_type, value, room, kw, sockOk, lat) ==
    /\ SendBody(ccm_type, value, room, kw, sockOk, lat)
    /\ UNCHANGED extVars

----------------------------------------------------------------------------
(* CcmSender.send_with_duration and CcmSender._auto_off *)

\* A faulty duration guard: the maximum itself is refused.
IrrigationTooLongInclusive(ccm_type, duration_seconds) ==
    /\ Contains(IrriMarker, ccm_type)
    /\ duration_seconds >= limits.max_irrigation_duration_seconds

IrrigationTooLong(ccm_type, duration_seconds) ==
    /\ Contains(IrriMarker, ccm_type)
    /\ duration_seconds > limits.max_irrigation_duration_seconds

\* f"{room}:{ccm_type}"
TimerKey(room, ccm_type) == IntToStr(room) \o << ":" >> \o ccm_type

\* A faulty cancel: a task whose delay is already over is left to run.
CancelUnlessDue(ts, i) ==
    IF ts[i].state = "sleeping" /\ mono < ts[i].due
    THEN [ts EXCEPT ![i].state = "cancelled", ![i].cancelled_at = mono]
    ELSE ts

\* Task.cancel(): a task that has not finished never resumes its coroutine
\* past the await; a finished task is left as it is.
Cancel(ts, i) ==
    IF ts[i].state = "sleeping"
    THEN [ts EXCEPT ![i].state = "cancelled", ![i].cancelled_at = mono]
    ELSE ts

\* A faulty send_with_duration: the pending timer is left running.
CancelTimerNever(ts, timer_key) == ts

CancelTimer(ts, timer_key) ==
    IF timer_key \in DOMAIN off_timers
    THEN Cancel(ts, off_timers[timer_key])
    ELSE ts

\* asyncio.create_task(self._auto_off(ccm_type, duration_seconds, room=...,
\* region=..., order=..., priority=...)), created when the clock reads `now`.
NewTask(timer_key, ccm_type, duration_seconds, room, kw, now) ==
    [key |-> timer_key, ccm_type |-> ccm_type, delay |-> duration_seconds,
     room |-> room, kw |-> kw,
     state |-> "sleeping", created |-> now, due |-> now + duration_seconds,
     cancelled_at |-> -1,
     ncalls |-> 0, call |-> NoCall]

\* send_with_duration, as it acts on the sender whoever calls it.
SendWithDurationBody(ccm_type, value, duration_seconds, room, kw, sockOk, lat) ==
    /\ calls < MaxCalls
    /\ mono + lat <= MaxClock
    /\ LET timer_key == TimerKey(room, ccm_type)
           call == [op |-> "send_with_duration", ccm_type |-> ccm_type,
                    value |-> value, room |-> room, kw |-> kw,
                    duration |-> duration_seconds, at |-> mono, result |-> NoCall]
       IN  IF IrrigationTooLong(ccm_type, duration_seconds)
           THEN /\ lastCall' = [call EXCEPT !.result =
                                   [kind |-> "duration", duration |-> duration_seconds,
                                    maximum |-> limits.max_irrigation_duration_seconds]]
                /\ UNCHANGED << wire, mono, last_send_time, off_timers, tasks, origin >>
           ELSE LET cancelled == CancelTimer(tasks, timer_key)
                    res == SendResult(ccm_type, value, room, kw, sockOk)
                IN  /\ Send(res, ccm_type, value, room, kw, lat)
                    /\ IF res.kind = "ok" /\ value # 0
                       THEN /\ tasks' = Append(cancelled,
                                   NewTask(timer_key, ccm_type, duration_seconds,
                                           room, kw, mono + lat))
                            /\ off_timers' =
                                   [k \in DOMAIN off_timers \cup { timer_key } |->
                                       IF k = timer_key THEN Len(tasks) + 1
                                       ELSE off_timers[k]]
                            /\ origin' = Append(origin, call)
                            /\ lastCall' = [call EXCEPT !.result =
                                   [res EXCEPT !.auto_off = duration_seconds]]
                       ELSE /\ tasks' = cancelled
                            /\ UNCHANGED << off_timers, origin >>
                            /\ lastCall' = [call EXCEPT !.result = res]
    /\ calls' = calls + 1
    /\ UNCHANGED << limits, thr, cacheVars >>

SendWithDurationCall(ccm_type, value, duration_seconds, room, kw, sockOk, lat) ==
    /\ SendWithDurationBody(ccm_type, value, duration_seconds, room, kw, sockOk, lat)
    /\ UNCHANGED extVars

\* `await asyncio.sleep(delay)` is over and the task is resumed: at any time
\* from `delay` seconds after the task was created.
\* A faulty task: cancellation does not stop it.
CanWakeThoughCancelled(t) ==
    t.state \in { "sleeping", "cancelled" } /\ mono >= t.due

\* A faulty task: it does not wait for its delay.
CanWakeEarly(t) == t.state = "sleeping"

CanWake(t) == t.state = "sleeping" /\ mono >= t.due

AutoOffValue == 0

\* The task's second step: self.send(ccm_type, 0, **kwargs); a ValueError or
\* OSError of send ends the task.
TaskWakeBody(i, sockOk, lat) ==
    /\ CanWake(tasks[i])
    /\ mono + lat <= MaxClock
    /\ LET t == tasks[i]
           res == SendResult(t.ccm_type, AutoOffValue, t.room, t.kw, sockOk)
       IN  /\ Send(res, t.ccm_type, AutoOffValue, t.room, t.kw, lat)
           /\ tasks' = [tasks EXCEPT
                  ![i].state = IF res.kind = "ok" THEN "done" ELSE "failed",
                  ![i].ncalls = t.ncalls + 1,
                  ![i].call = [ccm_type |-> t.ccm_type, value |-> AutoOffValue,
                               room |-> t.room, kw |-> t.kw, at |-> mono,
                               result |-> res]]
    /\ UNCHANGED << limits, off_timers, lastCall, calls, origin, thr, cacheVars >>

TaskWake(i, sockOk, lat) ==
    /\ TaskWakeBody(i, sockOk, lat)
    /\ UNCHANGED extVars

Tick ==
    /\ mono < MaxClock
    /\ mono' = mono + 1
    /\ UNCHANGED << limits, last_send_time, off_timers, tasks, wire, lastCall, calls,
                    origin, thr, cacheVars, extVars >>

SenderNext ==
    \/ \E tg \in Targets, value \in Values, kw \in KwArgs,
          sockOk \in BOOLEAN, lat \in 0..MaxLatency :
          SendCall(tg[1], value, tg[2], kw, sockOk, lat)
    \/ \E tg \in Targets, value \in Values, d \in Durations,
          kw \in KwArgs, sockOk \in BOOLEAN, lat \in 0..MaxLatency :
          SendWithDurationCall(tg[1], value, d, tg[2], kw, sockOk, lat)
    \/ \E i \in DOMAIN tasks, sockOk \in BOOLEAN, lat \in 0..MaxLatency :
          TaskWake(i, sockOk, lat)
    \/ Tick

SpecSender == SenderInit /\ [][SenderNext]_vars

----------------------------------------------------------------------------
(* CcmSender.send called from several threads: the method holds no lock, so  *)
(* a thread may be preempted between the rate-limit check, the transmission *)
(* and the update of _last_send_time.                                       *)

MaxThreadCalls == 2     \* send calls begun by the threads altogether

\* Lines 83-96: the allowlist check, the clock reading and the rate check.
ThreadSendBegin(t, ccm_type, value, room, kw) ==
    /\ thr[t].pc = "idle"
    /\ calls < MaxThreadCalls
    /\ calls' = calls + 1
    /\ thr' = [thr EXCEPT ![t] =
           IF ~IsAllowed(ccm_type) \/ RateLimited(mono)
           THEN [pc |-> "idle"]
           ELSE [pc |-> "checked", ccm_type |-> ccm_type, value |-> value,
                 room |-> room, kw |-> kw]]
    /\ UNCHANGED << limits, mono, last_send_time, off_timers, tasks, wire, lastCall,
                    origin, cacheVars, extVars >>

\* Lines 98-106: the packet is built and handed to the socket.
ThreadSendTransmit(t, sockOk) ==
    /\ thr[t].pc = "checked"
    /\ IF sockOk
       THEN /\ wire' = Append(wire, Datagram(thr[t].ccm_type, thr[t].value,
                                             thr[t].room, thr[t].kw, mono, -1))
            /\ thr' = [thr EXCEPT ![t].pc = "transmitted"]
       ELSE /\ thr' = [thr EXCEPT ![t] = [pc |-> "idle"]]
            /\ UNCHANGED wire
    /\ UNCHANGED << limits, mono, last_send_time, off_timers, tasks, lastCall, calls,
                    origin, cacheVars, extVars >>

\* Line 108: self._last_send_time = time.monotonic()
ThreadSendRecord(t) ==
    /\ thr[t].pc = "transmitted"
    /\ last_send_time' = mono
    /\ thr' = [thr EXCEPT ![t] = [pc |-> "idle"]]
    /\ UNCHANGED << limits, mono, off_timers, tasks, wire, lastCall, calls, origin,
                    cacheVars, extVars >>

ThreadTick ==
    /\ mono < MaxClock
    /\ mono' = mono + 1
    /\ UNCHANGED << limits, last_send_time, off_timers, tasks, wire, lastCall, calls,
                    origin, thr, cacheVars, extVars >>

ThreadsNext ==
    \/ \E t \in Threads, tg \in Targets, value \in Values :
          ThreadSendBegin(t, tg[1], value, tg[2], DefaultKw)
    \/ \E t \in Threads, sockOk \in BOOLEAN : ThreadSendTransmit(t, sockOk)
    \/ \E t \in Threads : ThreadSendRecord(t)
    \/ ThreadTick

SpecThreads == SenderInit /\ [][ThreadsNext]_vars

----------------------------------------------------------------------------
(* SensorCache *)

MaxWall == 3        \* the wall clock runs from 0 to MaxWall
MaxUpdates == 3     \* calls of update

\* list_nodes' default timeout_seconds.
DefaultTimeoutSeconds == 300

\* The packets update is called with: CcmPacket(ccm_type, value, room,
\* source_ip); the cache reads no other field.
Packet(ccm_type, value, room, source_ip) ==
    [ccm_type |-> ccm_type, value |-> value, room |-> room, source_ip |-> source_ip]

PacketInputs ==
    { Packet(T_InAirTemp, 20, 1, "192.168.1.70"),
      Packet(T_InAirTemp, 25, 1, "192.168.1.70"),
      Packet(T_InAirTemp, 25, 1, "192.168.1.71"),
      Packet(T_InAirTemp, 30, 2, "192.168.1.70"),
      Packet(T_IrrircA, 1, 1, "192.168.1.71"),
      Packet(T_WAirTemp, 5, 1, ""),
      Packet(T_testFLOW, 7, 2, "192.168.1.71"),
      Packet(T_Irri, 1, 1, "") }

HouseInputs == { << "h", "1" >>, << "h", "2" >>, << "h", "3" >> }
CategoryInputs == { "sensor", "actuator", "weather", "other", "all" }
TimeoutInputs == { 1, 2, DefaultTimeoutSeconds }

classify_ccm_type(ccm_type) ==
    IF ccm_type \in SENSOR_TYPES THEN "sensor"
    ELSE IF ccm_type \in ACTUATOR_TYPES THEN "actuator"
    ELSE IF ccm_type \in WEATHER_TYPES THEN "weather"
    ELSE "other"

\* A faulty key: the room is left out of the house id.
HouseIdOfFirstRoom(room) == << "h", "1" >>

\* f"h{packet.room}"
HouseId(room) == << "h" >> \o IntToStr(room)

\* A faulty store: an entry already cached is kept (dict.setdefault).
StoreEntryIfAbsent(d, key, entry) ==
    [k \in DOMAIN d \cup { key } |-> IF k \in DOMAIN d THEN d[k] ELSE entry]

\* self._data[key] = entry
StoreEntry(d, key, entry) ==
    [k \in DOMAIN d \cup { key } |-> IF k = key THEN entry ELSE d[k]]

\* The position of the node of address ip in _nodes, 0 when there is none.
NodeIndex(ns, ip) ==
    IF \E i \in DOMAIN ns : ns[i].ip = ip
    THEN CHOOSE i \in DOMAIN ns : ns[i].ip = ip
    ELSE 0

\* A faulty tracking: the node's type set is replaced by the packet's type.
TrackNodeLatestType(ns, packet, now) ==
    LET known == IF NodeIndex(ns, packet.source_ip) = 0
                 THEN Append(ns, [ip |-> packet.source_ip, ccm_types |-> {},
                                  last_seen |-> wall])
                 ELSE ns
        i == NodeIndex(known, packet.source_ip)
    IN  [known EXCEPT ![i].ccm_types = { packet.ccm_type },
                      ![i].last_seen = now]

\* A faulty tracking: every node is marked as seen.
TrackNodeTouchAll(ns, packet, now) ==
    LET known == IF NodeIndex(ns, packet.source_ip) = 0
                 THEN Append(ns, [ip |-> packet.source_ip, ccm_types |-> {},
                                  last_seen |-> wall])
                 ELSE ns
        i == NodeIndex(known, packet.source_ip)
    IN  [j \in DOMAIN known |->
            [known[j] EXCEPT
                !.ccm_types = IF j = i THEN @ \cup { packet.ccm_type } ELSE @,
                !.last_seen = now]]

\* The node-tracking part of update, for a packet with a source address:
\* NodeInfo(ip=...) is created when the address is new, then the type is added
\* and last_seen set.
TrackNode(ns, packet, now) ==
    LET known == IF NodeIndex(ns, packet.source_ip) = 0
                 THEN Append(ns, [ip |-> packet.source_ip, ccm_types |-> {},
                                  last_seen |-> wall])
                 ELSE ns
        i == NodeIndex(known, packet.source_ip)
    IN  [known EXCEPT ![i].ccm_types = @ \cup { packet.ccm_type },
                      ![i].last_seen = now]

\* update, up to the lock: the key and the time stamp are computed.
UpdateBegin(w, packet) ==
    /\ upd[w].pc = "idle"
    /\ Len(applied) + Cardinality({ v \in Writers : upd[v].pc = "stamped" }) < MaxUpdates
    /\ upd' = [upd EXCEPT ![w] =
           [pc |-> "stamped", packet |-> packet,
            key |-> << HouseId(packet.room), packet.ccm_type >>, now |-> wall]]
    /\ UNCHANGED << wall, data, nodes, applied, senderVars, thr, extVars >>

\* update, under the lock: the entry is stored and the node tracked.
UpdateApply(w) ==
    /\ upd[w].pc = "stamped"
    /\ LET u == upd[w]
       IN  /\ data' = StoreEntry(data, u.key, [packet |-> u.packet, updated_at |-> u.now])
           /\ nodes' = IF u.packet.source_ip # ""
                       THEN TrackNode(nodes, u.packet, u.now)
                       ELSE nodes
           /\ applied' = Append(applied, [packet |-> u.packet, now |-> u.now])
    /\ upd' = [upd EXCEPT ![w] = [pc |-> "idle"]]
    /\ UNCHANGED << wall, senderVars, thr, extVars >>

\* The reads take the lock, copy and return; they change nothing, and what
\* they return is a function of the cache at the moment they hold the lock.

\* A faulty get: self._data[(house_id, ccm_type)], a KeyError for a key the
\* cache does not hold.
GetSubscript(house_id, ccm_type) ==
    IF << house_id, ccm_type >> \in DOMAIN data
    THEN [found |-> TRUE, entry |-> data[<< house_id, ccm_type >>]]
    ELSE [found |-> FALSE, raised |-> "KeyError"]

\* SensorCache.get: the entry, or None.
Get(house_id, ccm_type) ==
    IF << house_id, ccm_type >> \in DOMAIN data
    THEN [found |-> TRUE, entry |-> data[<< house_id, ccm_type >>]]
    ELSE [found |-> FALSE]

\* A faulty scan: the house is not compared.
GetByCategoryAnyHouse(house_id, category) ==
    LET keys == { k \in DOMAIN data : classify_ccm_type(k[2]) = category }
    IN  [ctype \in { k[2] : k \in keys } |->
            data[CHOOSE k \in keys : k[2] = ctype]]

\* SensorCache.get_by_category: ccm_type -> CacheEntry.
GetByCategory(house_id, category) ==
    LET keys == { k \in DOMAIN data :
                    k[1] = house_id /\ classify_ccm_type(k[2]) = category }
    IN  [ctype \in { k[2] : k \in keys } |-> data[<< house_id, ctype >>]]

\* A faulty filter: active_only is not consulted.
IsListedAlways(n, active_only, timeout_seconds, now) == TRUE

\* list_nodes' filter.
IsListed(n, active_only, timeout_seconds, now) ==
    active_only => (now - n.last_seen < timeout_seconds)

RECURSIVE Filter(_, _, _, _)
Filter(ns, active_only, timeout_seconds, now) ==
    IF ns = << >> THEN << >>
    ELSE (IF IsListed(Head(ns), active_only, timeout_seconds, now)
          THEN << Head(ns) >> ELSE << >>)
         \o Filter(Tail(ns), active_only, timeout_seconds, now)

\* SensorCache.list_nodes: `now` is the wall clock as read on entry, before
\* the lock is taken.
ListNodes(active_only, timeout_seconds, now) ==
    Filter(nodes, active_only, timeout_seconds, now)

WallTick ==
    /\ wall < MaxWall
    /\ wall' = wall + 1
    /\ UNCHANGED << data, nodes, upd, applied, senderVars, thr, extVars >>

CacheNext ==
    \/ \E w \in Writers, packet \in PacketInputs : UpdateBegin(w, packet)
    \/ \E w \in Writers : UpdateApply(w)
    \/ WallTick

\* The cache beside a sender built with the default limits and left alone.
CacheSpecInit ==
    /\ SenderInit
    /\ limits.allowed_actuators = DefaultAllowedActuators
    /\ limits.min_send_interval_seconds = 1
    /\ mono = 0

SpecCache == CacheSpecInit /\ [][CacheNext]_vars

----------------------------------------------------------------------------
(* Properties of the sender *)

\* A step that is a call of the given public method.
ApiStep(op) == calls' = calls + 1 /\ lastCall'.op = op

\* The exceptions of send and send_with_duration that are ValueErrors.
ValueErrorKinds == { "not_allowed", "rate_limited", "duration" }

IsSortedListOf(list, S) ==
    /\ Len(list) = Cardinality(S)
    /\ { list[i] : i \in DOMAIN list } = S
    /\ \A i \in 1..(Len(list) - 1) : StrLess(list[i], list[i + 1])

\* The step appends exactly the datagram of call c to the wire.
Transmits(c) ==
    /\ Len(wire') = Len(wire) + 1
    /\ SubSeq(wire', 1, Len(wire)) = wire
    /\ LET d == wire'[Len(wire')]
       IN  /\ d.ccm_type = c.ccm_type
           /\ d.value = c.value
           /\ d.room = c.room
           /\ d.region = c.kw.region
           /\ d.order = c.kw.order
           /\ d.priority = c.kw.priority

C1_WireAllowed ==
    \A i \in DOMAIN wire : wire[i].ccm_type \in limits.allowed_actuators

C1_SendStep ==
    ApiStep("send") =>
        LET c == lastCall'
        IN  /\ c.ccm_type \notin limits.allowed_actuators =>
                /\ c.result.kind = "not_allowed"
                /\ IsSortedListOf(c.result.listed, limits.allowed_actuators)
                /\ wire' = wire
            /\ ( /\ c.ccm_type \in limits.allowed_actuators
                 /\ c.at - last_send_time >= limits.min_send_interval_seconds
                 /\ c.result.kind # "oserror" ) =>
                /\ c.result.kind = "ok"
                /\ Transmits(c)

\* C1: every datagram the sender ever transmitted (by send, by
\* send_with_duration or by an auto-off task) has a type of the allowed set;
\* a send of a type outside the set raises the ValueError that lists the
\* sorted allowed set and transmits nothing; a send of a type inside the set
\* that is not rate limited is transmitted (unless the socket raises).
C1_AllowlistGuard == []C1_WireAllowed /\ [][C1_SendStep]_vars

\* An auto-off task has transmitted its OFF, and a later send of a type
\* outside the allowed set was refused.
C1_Witness ==
    /\ lastCall.op = "send"
    /\ lastCall.result.kind = "not_allowed"
    /\ \E i \in DOMAIN tasks : tasks[i].state = "done"

C2_SendStep ==
    ( /\ ApiStep("send")
      /\ wire # << >>
      /\ lastCall'.ccm_type \in limits.allowed_actuators ) =>
        LET c == lastCall'
            t == wire[Len(wire)].done
        IN  /\ c.at - t < limits.min_send_interval_seconds =>
                /\ c.result.kind = "rate_limited"
                /\ wire' = wire
            /\ ( /\ c.at - t >= limits.min_send_interval_seconds
                 /\ c.result.kind # "oserror" ) =>
                /\ c.result.kind = "ok"
                /\ Transmits(c)

\* C2: with t the time the latest successful send returned, a send of an
\* allowed type called at t' is refused with the rate-limit ValueError and
\* transmits nothing when t' - t < min_send_interval_seconds, and succeeds
\* and transmits when t' - t >= min_send_interval_seconds (unless the socket
\* raises).
C2_RateLimit == [][C2_SendStep]_vars

\* Two sends got through, the second called exactly min_send_interval_seconds
\* (not zero) after the first returned.
C2_Witness ==
    /\ lastCall.op = "send"
    /\ lastCall.result.kind = "ok"
    /\ Len(wire) >= 2
    /\ limits.min_send_interval_seconds > 0
    /\ lastCall.at - wire[Len(wire) - 1].done = limits.min_send_interval_seconds

\* C3: no two transmissions are less than min_send_interval_seconds apart,
\* whatever the interleaving of the callers of send.
C3_MinGapBetweenTransmissions ==
    \A i, j \in DOMAIN wire :
        i < j => wire[j].at - wire[i].at >= limits.min_send_interval_seconds

C4_NoEffect ==
    UNCHANGED << wire, last_send_time, off_timers, tasks, origin, mono >>

C4_OriginalStep ==
    ( /\ ApiStep("send_with_duration")
      /\ Contains(IrriMarker, lastCall'.ccm_type) ) =>
        LET c == lastCall'
            tooLong == c.duration > limits.max_irrigation_duration_seconds
        IN  /\ (c.result.kind \in ValueErrorKinds) <=> tooLong
            /\ tooLong => C4_NoEffect

\* C4 as stated: send_with_duration of a type containing "Irri" raises a
\* ValueError exactly when duration_seconds > max_irrigation_duration_seconds,
\* and then has no effect.
C4_Original == [][C4_OriginalStep]_vars

C4_AmendedStep ==
    ( /\ ApiStep("send_with_duration")
      /\ Contains(IrriMarker, lastCall'.ccm_type) ) =>
        LET c == lastCall'
            tooLong == c.duration > limits.max_irrigation_duration_seconds
        IN  /\ (c.result.kind = "duration") <=> tooLong
            /\ tooLong => C4_NoEffect

\* C4, amended: send_with_duration of a type containing "Irri" raises the
\* duration ValueError ("exceeds max") exactly when duration_seconds >
\* max_irrigation_duration_seconds, and then has no effect: nothing is
\* transmitted, the last-send time is unchanged and no timer is cancelled or
\* replaced. With a duration within the maximum it can still raise the
\* allowlist or rate-limit ValueError of its immediate send.
C4_DurationGuard == [][C4_AmendedStep]_vars

\* The duration guard refused a call while a timer was pending for its key.
C4_Witness ==
    /\ lastCall.op = "send_with_duration"
    /\ lastCall.result.kind = "duration"
    /\ \E i \in DOMAIN tasks :
          /\ tasks[i].key = TimerKey(lastCall.room, lastCall.ccm_type)
          /\ tasks[i].state = "sleeping"

\* C5: a task that was cancelled makes no send call, at any later time.
C5_CancelledNeverFires ==
    \A i \in DOMAIN tasks :
        tasks[i].cancelled_at >= 0 =>
            /\ tasks[i].state = "cancelled"
            /\ tasks[i].ncalls = 0
            /\ tasks[i].call = NoCall

\* A task was cancelled when its delay was already over, and time went on.
C5_Witness ==
    \E i \in DOMAIN tasks :
        /\ tasks[i].cancelled_at >= tasks[i].due
        /\ mono > tasks[i].cancelled_at

LiveTasks(key) ==
    { i \in DOMAIN tasks : tasks[i].key = key /\ tasks[i].state = "sleeping" }

C6_AtMostOneLive ==
    \A i \in DOMAIN tasks : Cardinality(LiveTasks(tasks[i].key)) <= 1

C6_OnlyLatestFires ==
    \A i \in DOMAIN tasks :
        tasks'[i].ncalls > tasks[i].ncalls =>
            \A j \in DOMAIN tasks : j > i => tasks[j].key # tasks[i].key

\* C6: at most one auto-off task per timer key is live at any time, and a
\* task makes its OFF send only while no later task was scheduled for its key.
C6_OneTimerPerKey == []C6_AtMostOneLive /\ [][C6_OnlyLatestFires]_vars

\* Two tasks were scheduled for one key; the second has made its send.
C6_Witness ==
    \E i, j \in DOMAIN tasks :
        /\ i < j
        /\ tasks[i].key = tasks[j].key
        /\ tasks[j].ncalls = 1

\* C7: an auto-off task makes no send call before it ends and exactly one
\* when it ends uncancelled: with value 0 and the type, room, region, order
\* and priority of the send_with_duration call that created it, and no
\* earlier than duration_seconds after that call.
C7_AutoOffCall ==
    \A i \in DOMAIN tasks :
        LET t == tasks[i]
            o == origin[i]
        IN  /\ t.ncalls = (IF t.state \in { "done", "failed" } THEN 1 ELSE 0)
            /\ t.ncalls = 1 =>
                /\ t.call.value = 0
                /\ t.call.ccm_type = o.ccm_type
                /\ t.call.room = o.room
                /\ t.call.kw = o.kw
                /\ t.call.at >= o.at + o.duration
            /\ t.state = "done" =>
                \E k \in DOMAIN wire :
                    wire[k] = Datagram(o.ccm_type, 0, o.room, o.kw, t.call.at,
                                       wire[k].done)

\* A task created with region 2, order 3 and priority 1 has sent its OFF.
C7_Witness ==
    \E i \in DOMAIN tasks :
        /\ tasks[i].state = "done"
        /\ origin[i].kw.priority = 1
        /\ origin[i].room = 2

\* C23: on a freshly constructed CcmSender the first send of an allowed type
\* is never refused by the rate limit, whatever min_send_interval_seconds is
\* and whatever the monotonic clock reads.
C23_FirstSendNotRateLimited ==
    ( /\ calls = 1
      /\ lastCall.op = "send"
      /\ lastCall.ccm_type \in limits.allowed_actuators )
        => lastCall.result.kind # "rate_limited"

\* C24: auto-off is effective: the timer of a successful send_with_duration
\* that no later call for its key superseded transmits the OFF packet once
\* the duration has elapsed, whatever the duration and whatever was sent in
\* between: when its task resumes, the send of value 0 goes out (a failure of
\* the socket excepted) and is not refused.
C24_AutoOffTransmits ==
    \A i \in DOMAIN tasks :
        (tasks[i].ncalls = 1 /\ tasks[i].call.result.kind # "oserror")
            => /\ tasks[i].call.result.kind = "ok"
               /\ tasks[i].state = "done"

\* A step in which an auto-off task makes its send.
WakeStep(i) == i \in DOMAIN tasks /\ tasks'[i].ncalls = tasks[i].ncalls + 1

\* The key of the call c.
KeyOfCall(c) == TimerKey(c.room, c.ccm_type)

\* C35: send_with_duration with a falsy value schedules no auto-off task.
\* When it succeeds, no task is created, the timer that was pending for its
\* (room, type) key is cancelled, and no live timer remains for the key; the
\* tasks of the key make no send from then on.
C35_FalsyStep ==
    ( /\ ApiStep("send_with_duration")
      /\ lastCall'.value = 0
      /\ lastCall'.result.kind = "ok" ) =>
        LET key == KeyOfCall(lastCall')
        IN  /\ Len(tasks') = Len(tasks)
            /\ lastCall'.result.auto_off = -1
            /\ \A i \in DOMAIN tasks :
                  tasks[i].key = key =>
                      /\ tasks'[i].state # "sleeping"
                      /\ tasks[i].state = "sleeping" =>
                            /\ tasks'[i].state = "cancelled"
                            /\ tasks'[i].cancelled_at = lastCall'.at

C35_NoSendAfterFalsy ==
    ( /\ lastCall.op = "send_with_duration"
      /\ lastCall.value = 0
      /\ lastCall.result.kind = "ok" ) =>
        \A i \in DOMAIN tasks :
            tasks[i].key = KeyOfCall(lastCall) =>
                /\ tasks[i].state # "sleeping"
                /\ tasks[i].ncalls = 1 => tasks[i].call.at <= lastCall.at

C35_FalsySchedulesNothing == [][C35_FalsyStep]_vars /\ []C35_NoSendAfterFalsy

\* A falsy send_with_duration succeeded when the timer of its key was due,
\* cancelled it, and time went on.
C35_Witness ==
    /\ lastCall.op = "send_with_duration"
    /\ lastCall.value = 0
    /\ lastCall.result.kind = "ok"
    /\ mono > lastCall.at
    /\ \E i \in DOMAIN tasks :
          /\ tasks[i].key = KeyOfCall(lastCall)
          /\ tasks[i].cancelled_at = lastCall.at
          /\ tasks[i].due <= lastCall.at

\* A step in which send is attempted and fails: a call of send, the
\* immediate send of send_with_duration, or the send of an auto-off task.
FailedSendStep ==
    \/ ApiStep("send") /\ lastCall'.result.kind # "ok"
    \/ ApiStep("send_with_duration") /\ lastCall'.result.kind \notin { "ok", "duration" }
    \/ \E i \in DOMAIN tasks : WakeStep(i) /\ tasks'[i].call.result.kind # "ok"

C36_FailedStep ==
    FailedSendStep =>
        /\ last_send_time' = last_send_time
        /\ wire' = wire
        /\ ApiStep("send") => (off_timers' = off_timers /\ tasks' = tasks)

C36_LastSendIsLastSuccess ==
    wire # << >> => last_send_time = wire[Len(wire)].done

\* C36: a send that fails, by the allowlist, by the rate limit or by an
\* error of the socket, leaves the sender as it was: the last-send time is
\* still the time the latest successful send returned, and the timer map and
\* its tasks are untouched.
C36_FailedSendChangesNothing ==
    [][C36_FailedStep]_vars /\ []C36_LastSendIsLastSuccess

\* After a successful send_with_duration, a send failed on the socket at a
\* later time while the timer was pending.
C36_Witness ==
    /\ lastCall.op = "send"
    /\ lastCall.result.kind = "oserror"
    /\ wire # << >>
    /\ lastCall.at > last_send_time
    /\ \E i \in DOMAIN tasks : tasks[i].state = "sleeping"

\* What the step's send attempt was called with and gave, when the step is
\* one: [at, ccm_type, result].
InWindow(at) ==
    /\ wire # << >>
    /\ at - wire[Len(wire)].done < limits.min_send_interval_seconds

Rejected(ccm_type, res) ==
    /\ res.kind = (IF ccm_type \in limits.allowed_actuators
                   THEN "rate_limited" ELSE "not_allowed")
    /\ wire' = wire
    /\ last_send_time' = last_send_time

C37_SharedClockStep ==
    /\ (ApiStep("send") /\ InWindow(lastCall'.at))
          => Rejected(lastCall'.ccm_type, lastCall'.result)
    /\ ( /\ ApiStep("send_with_duration")
         /\ InWindow(lastCall'.at)
         /\ lastCall'.result.kind # "duration" )
          => Rejected(lastCall'.ccm_type, lastCall'.result)
    /\ \A i \in DOMAIN tasks :
          (WakeStep(i) /\ InWindow(tasks'[i].call.at))
              => Rejected(tasks[i].ccm_type, tasks'[i].call.result)

\* C37: the rate limit is one clock for the whole sender. A send attempted
\* less than min_send_interval_seconds after the latest successful send
\* returned is refused and transmits nothing, whatever its type, room,
\* region, order, value and priority: a priority-1 OFF and the send of an
\* auto-off task included.
C37_RateLimitIsShared == [][C37_SharedClockStep]_vars

\* A priority-1 OFF for one actuator was refused because another actuator
\* had just been commanded.
C37_Witness ==
    /\ lastCall.op = "send"
    /\ lastCall.value = 0
    /\ lastCall.kw.priority = 1
    /\ lastCall.result.kind = "rate_limited"
    /\ wire # << >>
    /\ wire[Len(wire)].ccm_type # lastCall.ccm_type
    /\ wire[Len(wire)].room = lastCall.room

C38_PlainSendStep ==
    ApiStep("send") => (off_timers' = off_timers /\ tasks' = tasks /\ origin' = origin)

C38_OnlyItsCallCancels ==
    \A i \in DOMAIN tasks :
        (tasks[i].state = "sleeping" /\ tasks'[i].state # "sleeping") =>
            \/ WakeStep(i)
            \/ /\ ApiStep("send_with_duration")
               /\ KeyOfCall(lastCall') = tasks[i].key
               /\ tasks'[i].state = "cancelled"

\* C38: a plain send neither reads nor changes the timer map. A timer pending
\* for (room, type) is as it was after any send for that room and type, ON or
\* OFF, accepted or refused; a pending timer ends only by making its own send
\* or by the cancel of a send_with_duration for its key.
C38_PlainSendKeepsTimers == [][C38_PlainSendStep /\ C38_OnlyItsCallCancels]_vars

\* A plain OFF was sent for an actuator whose timer was pending, and the timer
\* made its send later.
C38_Witness ==
    /\ lastCall.op = "send"
    /\ lastCall.value = 0
    /\ lastCall.result.kind = "ok"
    /\ \E i \in DOMAIN tasks :
          /\ tasks[i].key = KeyOfCall(lastCall)
          /\ tasks[i].created <= lastCall.at
          /\ tasks[i].ncalls = 1
          /\ tasks[i].call.at > lastCall.at

C39_RejectedStep ==
    ( /\ ApiStep("send_with_duration")
      /\ lastCall'.result.kind \in { "rate_limited", "not_allowed" } ) =>
        /\ off_timers' = off_timers
        /\ tasks' = tasks

\* C39: a send_with_duration whose immediate send is refused, by the rate
\* limit or by the allowlist, leaves the timer pending for its key as it was:
\* still pending, and still to make its OFF send.
C39_RejectedKeepsTimer == [][C39_RejectedStep]_vars


----------------------------------------------------------------------------
(* Properties of the cache *)

Categories == { "sensor", "actuator", "weather", "other" }

\* The key update stores a packet under.
KeyOf(packet) == << HouseId(packet.room), packet.ccm_type >>

\* The house ids of the rooms of PacketInputs, spelled out.
HouseOfRoom(room) == IF room = 1 THEN << "h", "1" >> ELSE << "h", "2" >>

\* The packet of the latest applied update for (room, ccm_type).
LatestApplied(room, ccm_type) ==
    LET same == { i \in DOMAIN applied :
                    /\ applied[i].packet.room = room
                    /\ applied[i].packet.ccm_type = ccm_type }
        last == CHOOSE i \in same : \A j \in same : j <= i
    IN  applied[last].packet

\* C8: the cache holds exactly one entry per ("h" + room, type) of the
\* updates applied, and get and get_by_category return for it the packet of
\* the latest applied update of that room and type, and no earlier one.
C8_LastWriteWins ==
    /\ DOMAIN data =
          { << HouseOfRoom(applied[i].packet.room), applied[i].packet.ccm_type >> :
              i \in DOMAIN applied }
    /\ \A i \in DOMAIN applied :
          LET p == applied[i].packet
              house == HouseOfRoom(p.room)
              latest == LatestApplied(p.room, p.ccm_type)
              got == Get(house, p.ccm_type)
          IN  /\ got.found
              /\ got.entry.packet = latest
              /\ \E c \in Categories : p.ccm_type \in DOMAIN GetByCategory(house, c)
              /\ \A c \in Categories :
                    p.ccm_type \in DOMAIN GetByCategory(house, c) =>
                        GetByCategory(house, c)[p.ccm_type].packet = latest

\* Two updates of one room and type with different values were applied.
C8_Witness ==
    \E i, j \in DOMAIN applied :
        /\ i < j
        /\ applied[i].packet.room = applied[j].packet.room
        /\ applied[i].packet.ccm_type = applied[j].packet.ccm_type
        /\ applied[i].packet.value # applied[j].packet.value

\* C9: get_by_category(house, c) returns a cached entry exactly when its
\* house id is house and its type classifies as c, and nothing else; so a
\* weather entry is in no sensor or actuator query (and vice versa), and every
\* entry is in exactly one of the four category queries of its house.
C9_CategoryIsolation ==
    /\ \A house \in HouseInputs, c \in CategoryInputs :
          LET G == GetByCategory(house, c)
          IN  /\ \A k \in DOMAIN data :
                    (k[2] \in DOMAIN G /\ G[k[2]] = data[k])
                        <=> (k[1] = house /\ classify_ccm_type(k[2]) = c)
              /\ \A ctype \in DOMAIN G : << house, ctype >> \in DOMAIN data
    /\ \A k \in DOMAIN data :
          /\ Cardinality({ c \in Categories : k[2] \in DOMAIN GetByCategory(k[1], c) }) = 1
          /\ k[2] \in WEATHER_TYPES =>
                /\ k[2] \notin DOMAIN GetByCategory(k[1], "sensor")
                /\ k[2] \notin DOMAIN GetByCategory(k[1], "actuator")
          /\ k[2] \in SENSOR_TYPES \cup ACTUATOR_TYPES =>
                k[2] \notin DOMAIN GetByCategory(k[1], "weather")

\* House h1 holds a sensor entry, an actuator entry and a weather entry.
C9_Witness ==
    /\ DOMAIN GetByCategory(<< "h", "1" >>, "sensor") # {}
    /\ DOMAIN GetByCategory(<< "h", "1" >>, "actuator") # {}
    /\ DOMAIN GetByCategory(<< "h", "1" >>, "weather") # {}

Elements(seq) == { seq[i] : i \in DOMAIN seq }

\* The addresses update has registered a node for.
Registered ==
    { applied[i].packet.source_ip : i \in DOMAIN applied } \ { "" }

\* C10: list_nodes(active_only=True, timeout_seconds=T) returns no node whose
\* last_seen is more than T seconds before the `now` it read, and
\* list_nodes(active_only=False) returns every node ever registered, once.
C10_NodeLiveness ==
    \A T \in TimeoutInputs, now \in 0..wall :
        /\ \A n \in Elements(ListNodes(TRUE, T, now)) :
              /\ n \in Elements(nodes)
              /\ now - n.last_seen <= T
        /\ LET all == ListNodes(FALSE, T, now)
           IN  /\ { n.ip : n \in Elements(all) } = Registered
               /\ Len(all) = Cardinality(Registered)
               /\ Elements(all) = Elements(nodes)

\* One node was last seen more than a second ago and list_nodes(True, 1)
\* leaves it out while returning another; list_nodes(False) returns both.
C10_Witness ==
    \E n \in Elements(nodes) :
        /\ wall - n.last_seen > 1
        /\ n \notin Elements(ListNodes(TRUE, 1, wall))
        /\ ListNodes(TRUE, 1, wall) # << >>
        /\ n \in Elements(ListNodes(FALSE, 1, wall))

\* C20: every type of the sender's default allowed-actuator set is an
\* actuator to the cache: once update has taken a packet of such a type for a
\* room, get_actuators of the room's house (and the server's
\* get_actuator_status, which returns its entries) holds the type.
C20_AllowedTypesAreActuators ==
    \A i \in DOMAIN applied :
        LET p == applied[i].packet
        IN  p.ccm_type \in DefaultAllowedActuators =>
                p.ccm_type \in DOMAIN GetByCategory(HouseId(p.room), "actuator")

\* The types asked for: cached ones and one no packet carries.
TypesAsked == { p.ccm_type : p \in PacketInputs } \cup { T_CustomA }

\* C21: no read fails for what is missing: get of a (house, type) the cache
\* does not hold returns None and nothing else, get_by_category of a house or
\* category with no entry returns the empty map, and list_nodes returns the
\* empty list when no node is known or none is active.
C21_AbsenceIsEmpty ==
    /\ \A house \in HouseInputs, t \in TypesAsked :
          << house, t >> \notin DOMAIN data => Get(house, t) = [found |-> FALSE]
    /\ \A house \in HouseInputs, c \in CategoryInputs :
          (\A k \in DOMAIN data : ~(k[1] = house /\ classify_ccm_type(k[2]) = c))
              => GetByCategory(house, c) = << >>
    /\ \A T \in TimeoutInputs, now \in 0..wall :
          /\ nodes = << >> => ListNodes(FALSE, T, now) = << >>
          /\ (\A i \in DOMAIN nodes : now - nodes[i].last_seen >= T)
                => ListNodes(TRUE, T, now) = << >>

\* The cache holds entries and a node, none of them for house h3, and the
\* node was last seen a second or more ago.
C21_Witness ==
    /\ data # << >>
    /\ nodes # << >>
    /\ ~Get(<< "h", "3" >>, T_InAirTemp).found
    /\ Get(<< "h", "1" >>, T_InAirTemp).found
    /\ GetByCategory(<< "h", "3" >>, "sensor") = << >>
    /\ GetByCategory(<< "h", "1" >>, "sensor") # << >>
    /\ ListNodes(TRUE, 1, wall) = << >>
    /\ ListNodes(FALSE, 1, wall) # << >>

\* A step in which update stores a packet.
Applies == Len(applied') = Len(applied) + 1

\* C29: update with a packet without a source address upserts the entry of
\* ("h" + room, type) and leaves the node map as it is; with an address it
\* also adds the type to the node of that address, created when new, sets
\* that node's last_seen to the update's time, and leaves every other node
\* as it is.
C29_UpdateStep ==
    Applies =>
        LET u == applied'[Len(applied')]
            p == u.packet
            key == << HouseId(p.room), p.ccm_type >>
            old == { i \in DOMAIN nodes : nodes[i].ip = p.source_ip }
        IN  /\ key \in DOMAIN data'
            /\ data'[key] = [packet |-> p, updated_at |-> u.now]
            /\ \A k \in DOMAIN data \ { key } : k \in DOMAIN data' /\ data'[k] = data[k]
            /\ p.source_ip = "" => nodes' = nodes
            /\ p.source_ip # "" =>
                  /\ Len(nodes') = Len(nodes) + (IF old = { } THEN 1 ELSE 0)
                  /\ \A i \in DOMAIN nodes' :
                        IF nodes'[i].ip = p.source_ip
                        THEN /\ nodes'[i].ccm_types =
                                   (IF i \in old THEN nodes[i].ccm_types ELSE { })
                                       \cup { p.ccm_type }
                             /\ nodes'[i].last_seen = u.now
                        ELSE i \in DOMAIN nodes /\ nodes'[i] = nodes[i]

C29_NodeUpsert == [][C29_UpdateStep]_vars

\* A packet without an address was stored while two nodes were known, one of
\* them seen again later than the other.
C29_Witness ==
    /\ Len(nodes) = 2
    /\ nodes[1].last_seen # nodes[2].last_seen
    /\ applied # << >>
    /\ applied[Len(applied)].packet.source_ip = ""
    /\ Get(HouseId(applied[Len(applied)].packet.room),
           applied[Len(applied)].packet.ccm_type).found

\* C30: the cache's time stamps never move backwards, however concurrent
\* calls of update interleave: no entry's updated_at and no node's last_seen
\* decreases in any step.
C30_StampsStep ==
    /\ \A k \in DOMAIN data :
          k \in DOMAIN data' => data'[k].updated_at >= data[k].updated_at
    /\ \A i \in DOMAIN nodes :
          i \in DOMAIN nodes' => nodes'[i].last_seen >= nodes[i].last_seen

C30_StampsNeverGoBack == [][C30_StampsStep]_vars

\* C32: with active_only true, list_nodes leaves out only the nodes last seen
\* more than timeout_seconds ago: a node whose age, now minus last_seen, is
\* timeout_seconds or less is returned, a node whose age is greater is not.
C32_BoundaryIncluded ==
    \A T \in TimeoutInputs, now \in 0..wall :
        \A n \in Elements(nodes) :
            n.last_seen <= now =>
                (n \in Elements(ListNodes(TRUE, T, now))) <=> (now - n.last_seen <= T)

\* C34: update(p) changes only the entry of the key ("h" + p.room,
\* p.ccm_type): the map holds the keys it held and that one, and the entry of
\* every other key, the same type in another room and another type in the
\* same room included, keeps its packet and its updated_at.
C34_FrameStep ==
    Applies =>
        LET p == applied'[Len(applied')].packet
            key == << HouseOfRoom(p.room), p.ccm_type >>
        IN  /\ DOMAIN data' = DOMAIN data \cup { key }
            /\ \A k \in DOMAIN data :
                  k # key =>
                      /\ data'[k].packet = data[k].packet
                      /\ data'[k].updated_at = data[k].updated_at

C34_UpdateTouchesOneKey == [][C34_FrameStep]_vars

\* The latest update was of a type in room 2, later than the cached entries
\* of the same type in room 1 and of another type in room 2, which are still
\* there as they were stored.
C34_Witness ==
    /\ Len(applied) = 3
    /\ LET p == applied[3].packet
       IN  /\ p.room = 2
           /\ applied[1].packet.ccm_type = p.ccm_type
           /\ applied[1].packet.room = 1
           /\ applied[2].packet.ccm_type # p.ccm_type
           /\ applied[2].packet.room = 2
           /\ applied[3].now > applied[2].now
           /\ data[KeyOf(applied[1].packet)] =
                 [packet |-> applied[1].packet, updated_at |-> applied[1].now]
           /\ data[KeyOf(applied[2].packet)] =
                 [packet |-> applied[2].packet, updated_at |-> applied[2].now]

\* C40: whenever the cache lock is free the two maps agree: for every entry
\* whose packet has a source address, the node of that address exists, its
\* type set holds the entry's type, and its last_seen is not earlier than the
\* entry's updated_at. (update holds the lock for the whole of UpdateApply,
\* so the lock is free in every state.)
C40_MapsConsistent ==
    \A k \in DOMAIN data :
        LET e == data[k]
        IN  e.packet.source_ip # "" =>
                \E i \in DOMAIN nodes :
                    /\ nodes[i].ip = e.packet.source_ip
                    /\ e.packet.ccm_type \in nodes[i].ccm_types
                    /\ nodes[i].last_seen >= e.updated_at

----------------------------------------------------------------------------
(* What the reads of SensorCache hand out *)

\* Python hands out references. A NodeInfo lives in _nodes from its creation
\* on and is never replaced, so its position in nodes names the object. A
\* CacheEntry is created by one update and replaced by the next update of its
\* key, so the number of the update that created it names the object.

MutatedValue == 99

ViewPacketInputs ==
    { Packet(T_InAirTemp, 20, 1, "192.168.1.70"),
      Packet(T_InAirTemp, 25, 1, "192.168.1.70"),
      Packet(T_IrrircA, 1, 1, "192.168.1.70"),
      Packet(T_WAirTemp, 5, 2, "192.168.1.71") }

ViewHouseInputs == { << "h", "1" >>, << "h", "2" >> }
ViewCategoryInputs == { "sensor", "actuator" }
ViewTimeoutInputs == { 1, DefaultTimeoutSeconds }
StaleTimes == { 0 }


\* The CacheEntry object _data holds for key: the one the latest update of
\* the key created.
EntryId(key) ==
    CHOOSE i \in DOMAIN applied :
        /\ KeyOf(applied[i].packet) = key
        /\ \A j \in DOMAIN applied : KeyOf(applied[j].packet) = key => j <= i

\* A reference to the entry of key, with the value it showed when handed out.
EntryRef(key) == [key |-> key, id |-> EntryId(key), seen |-> data[key]]

\* A reference to the i-th NodeInfo, with the value it showed when handed out.
NodeRef(i) == [ref |-> i, seen |-> nodes[i]]

Held(op, entries, nodeRefs) ==
    [op |-> op, entries |-> entries, nodes |-> nodeRefs, touched |-> FALSE]

ViewFrame == UNCHANGED << senderVars, thr, cacheVars, proto, tool, rx >>

\* e = cache.get(house_id, ccm_type): the entry object itself, or None.
ReadGet(house_id, ccm_type) ==
    /\ held = NoCall
    /\ LET key == << house_id, ccm_type >>
       IN  held' = Held("get",
                        [k \in { key } \cap DOMAIN data |-> EntryRef(k)], << >>)
    /\ ViewFrame

\* r = cache.get_by_category(house_id, category): a new dict of the entry
\* objects.
ReadGetByCategory(house_id, category) ==
    /\ held = NoCall
    /\ LET keys == { << house_id, ctype >> :
                       ctype \in DOMAIN GetByCategory(house_id, category) }
       IN  held' = Held("get_by_category", [k \in keys |-> EntryRef(k)], << >>)
    /\ ViewFrame

\* r = cache.all_entries(): dict(self._data), a new dict of the entry objects.
ReadAllEntries ==
    /\ held = NoCall
    /\ held' = Held("all_entries", [k \in DOMAIN data |-> EntryRef(k)], << >>)
    /\ ViewFrame

\* SensorCache.all_entries: dict(self._data).
AllEntries == data

\* The positions in ns of the nodes list_nodes keeps.
RECURSIVE ListedIndices(_, _, _, _, _)
ListedIndices(ns, i, active_only, timeout_seconds, now) ==
    IF i > Len(ns) THEN << >>
    ELSE (IF IsListed(ns[i], active_only, timeout_seconds, now)
          THEN << i >> ELSE << >>)
         \o ListedIndices(ns, i + 1, active_only, timeout_seconds, now)

\* r = cache.list_nodes(active_only, timeout_seconds): a new list of the
\* NodeInfo objects of _nodes.
ReadListNodes(active_only, timeout_seconds) ==
    /\ held = NoCall
    /\ LET idx == ListedIndices(nodes, 1, active_only, timeout_seconds, wall)
       IN  held' = Held("list_nodes", << >>,
                        [j \in DOMAIN idx |-> NodeRef(idx[j])])
    /\ ViewFrame

\* Whether the entry object of reference r is still the one in _data.
IsCurrent(r) == r.key \in DOMAIN data /\ EntryId(r.key) = r.id

\* e.packet.value = MutatedValue, on an entry the caller holds.
MutateHeldEntry(k) ==
    /\ held # NoCall
    /\ k \in DOMAIN held.entries
    /\ held' = [held EXCEPT !.touched = TRUE]
    /\ data' = IF IsCurrent(held.entries[k])
               THEN [data EXCEPT ![held.entries[k].key].packet.value = MutatedValue]
               ELSE data
    /\ UNCHANGED << wall, nodes, upd, applied, senderVars, thr, proto, tool, rx >>

\* n.ccm_types.clear(), on a node the caller holds.
ClearHeldNodeTypes(j) ==
    /\ held # NoCall
    /\ j \in DOMAIN held.nodes
    /\ held' = [held EXCEPT !.touched = TRUE]
    /\ nodes' = [nodes EXCEPT ![held.nodes[j].ref].ccm_types = {}]
    /\ UNCHANGED << wall, data, upd, applied, senderVars, thr, proto, tool, rx >>

\* n.last_seen = t, on a node the caller holds.
SetHeldNodeLastSeen(j, t) ==
    /\ held # NoCall
    /\ j \in DOMAIN held.nodes
    /\ held' = [held EXCEPT !.touched = TRUE]
    /\ nodes' = [nodes EXCEPT ![held.nodes[j].ref].last_seen = t]
    /\ UNCHANGED << wall, data, upd, applied, senderVars, thr, proto, tool, rx >>

\* r.clear(), on the dict or list the caller holds: the container is the
\* caller's own.
ClearHeldContainer ==
    /\ held # NoCall
    /\ held.entries # << >> \/ held.nodes # << >>
    /\ held' = [held EXCEPT !.entries = << >>, !.nodes = << >>, !.touched = TRUE]
    /\ ViewFrame

ViewsNext ==
    \/ \E packet \in ViewPacketInputs : UpdateBegin("w1", packet)
    \/ UpdateApply("w1")
    \/ WallTick
    \/ \E house_id \in ViewHouseInputs, packet \in ViewPacketInputs :
          ReadGet(house_id, packet.ccm_type)
    \/ \E house_id \in ViewHouseInputs, category \in ViewCategoryInputs :
          ReadGetByCategory(house_id, category)
    \/ ReadAllEntries
    \/ \E active_only \in BOOLEAN, timeout_seconds \in ViewTimeoutInputs :
          ReadListNodes(active_only, timeout_seconds)
    \/ \E k \in DOMAIN data : MutateHeldEntry(k)
    \/ \E j \in 1..MaxUpdates : ClearHeldNodeTypes(j)
    \/ \E j \in 1..MaxUpdates, t \in StaleTimes : SetHeldNodeLastSeen(j, t)
    \/ ClearHeldContainer

SpecViews == CacheSpecInit /\ [][ViewsNext]_vars

----------------------------------------------------------------------------
(* server.list_nodes beside an update of another thread. update holds the   *)
(* lock from the store of the entry to the assignment of last_seen;         *)
(* SensorCache.list_nodes holds it only while it copies the list of the     *)
(* NodeInfo objects, and the tool reads their fields afterwards.            *)

NodePacketInputs ==
    { Packet(T_InAirTemp, 20, 1, "192.168.1.70"),
      Packet(T_WAirTemp, 5, 1, "192.168.1.70"),
      Packet(T_IrrircA, 1, 1, "192.168.1.70"),
      Packet(T_InAirTemp, 25, 1, "192.168.1.71") }

\* Whether a writer is inside `with self._lock`.
LockHeld == \E w \in Writers : upd[w].pc = "locked"

\* update, lines 82-86: the NodeInfo is created when the address is new and
\* the type added to its set.
TrackNodeAdd(ns, packet) ==
    LET known == IF NodeIndex(ns, packet.source_ip) = 0
                 THEN Append(ns, [ip |-> packet.source_ip, ccm_types |-> {},
                                  last_seen |-> wall])
                 ELSE ns
        i == NodeIndex(known, packet.source_ip)
    IN  [known EXCEPT ![i].ccm_types = @ \cup { packet.ccm_type }]

\* update, line 87: node.last_seen = now
TrackNodeSeen(ns, packet, now) ==
    [ns EXCEPT ![NodeIndex(ns, packet.source_ip)].last_seen = now]

\* update takes the lock, stores the entry and adds the type to the node.
UpdateStore(w) ==
    /\ upd[w].pc = "stamped"
    /\ ~LockHeld
    /\ LET u == upd[w]
       IN  /\ data' = StoreEntry(data, u.key, [packet |-> u.packet, updated_at |-> u.now])
           /\ nodes' = IF u.packet.source_ip # ""
                       THEN TrackNodeAdd(nodes, u.packet)
                       ELSE nodes
    /\ upd' = [upd EXCEPT ![w].pc = "locked"]
    /\ UNCHANGED << wall, applied, senderVars, thr, extVars >>

\* update sets the node's last_seen and releases the lock.
UpdateTouch(w) ==
    /\ upd[w].pc = "locked"
    /\ LET u == upd[w]
       IN  /\ nodes' = IF u.packet.source_ip # ""
                       THEN TrackNodeSeen(nodes, u.packet, u.now)
                       ELSE nodes
           /\ applied' = Append(applied, [packet |-> u.packet, now |-> u.now])
    /\ upd' = [upd EXCEPT ![w] = [pc |-> "idle"]]
    /\ UNCHANGED << wall, data, senderVars, thr, extVars >>

\* A faulty classification: a sensor type decides first.
NodeTypeSensorFirst(ccm_types) ==
    LET categories == { classify_ccm_type(t) : t \in ccm_types }
    IN  IF "sensor" \in categories THEN "sensor"
        ELSE IF "actuator" \in categories THEN "actuator"
        ELSE IF "weather" \in categories THEN "weather"
        ELSE "other"

\* server.list_nodes, lines 232-240: the node type of a set of types.
NodeType(ccm_types) ==
    LET categories == { classify_ccm_type(t) : t \in ccm_types }
    IN  IF "actuator" \in categories THEN "actuator"
        ELSE IF "weather" \in categories THEN "weather"
        ELSE IF "sensor" \in categories THEN "sensor"
        ELSE "other"

NodesFrame == UNCHANGED << senderVars, thr, cacheVars, proto, tool, rx >>

\* _cache.list_nodes(active_only), up to the release of the lock: the clock
\* is read and, under the lock, the list of the NodeInfo objects is copied.
ListBegin(active_only) ==
    /\ held = NoCall
    /\ ~LockHeld
    /\ held' = [op |-> "server.list_nodes", pc |-> "filter",
                active_only |-> active_only, now |-> wall,
                refs |-> [i \in DOMAIN nodes |-> i], j |-> 1,
                cur |-> NoCall, out |-> << >>]
    /\ NodesFrame

\* _cache.list_nodes, after the lock: the filter reads last_seen of each
\* object of the list.
ListFilter ==
    /\ held # NoCall
    /\ held.op = "server.list_nodes"
    /\ held.pc = "filter"
    /\ LET kept == SelectSeq(held.refs,
                       LAMBDA i : IsListed(nodes[i], held.active_only,
                                           DefaultTimeoutSeconds, held.now))
       IN  held' = [held EXCEPT !.refs = kept,
                                !.pc = IF kept = << >> THEN "done" ELSE "classify"]
    /\ NodesFrame

\* The tool's loop, line 232: the set comprehension starts to iterate over
\* node.ccm_types.
ListIterate ==
    /\ held # NoCall
    /\ held.op = "server.list_nodes"
    /\ held.pc = "classify"
    /\ LET n == nodes[held.refs[held.j]]
       IN  held' = [held EXCEPT !.pc = "iterating",
                                !.cur = [ref |-> held.refs[held.j],
                                         iterated |-> n.ccm_types]]
    /\ NodesFrame

\* Lines 232-240: the iteration ends and the node type is chosen; a set that
\* another thread changed meanwhile raises RuntimeError ("Set changed size
\* during iteration"), which ends the tool.
ListClassify ==
    /\ held # NoCall
    /\ held.op = "server.list_nodes"
    /\ held.pc = "iterating"
    /\ LET n == nodes[held.cur.ref]
       IN  held' = IF n.ccm_types = held.cur.iterated
                   THEN [held EXCEPT !.pc = "stamp",
                                     !.cur = [ref |-> held.cur.ref,
                                              classified |-> n.ccm_types,
                                              node_type |-> NodeType(n.ccm_types)]]
                   ELSE [held EXCEPT !.pc = "raised", !.cur = NoCall]
    /\ NodesFrame

\* Lines 243-244: node.ip and node.last_seen.isoformat().
ListStamp ==
    /\ held # NoCall
    /\ held.op = "server.list_nodes"
    /\ held.pc = "stamp"
    /\ LET n == nodes[held.cur.ref]
       IN  held' = [held EXCEPT !.pc = "types",
                                !.cur = [ref |-> held.cur.ref,
                                         classified |-> held.cur.classified,
                                         node_type |-> held.cur.node_type,
                                         ip |-> n.ip, last_seen |-> n.last_seen]]
    /\ NodesFrame

\* Lines 245-246: sorted(node.ccm_types); the node's view joins the list.
ListTypes ==
    /\ held # NoCall
    /\ held.op = "server.list_nodes"
    /\ held.pc = "types"
    /\ LET n == nodes[held.cur.ref]
           view == [ref |-> held.cur.ref, classified |-> held.cur.classified,
                    node_type |-> held.cur.node_type, ip |-> held.cur.ip,
                    last_seen |-> held.cur.last_seen, ccm_types |-> n.ccm_types]
       IN  held' = [held EXCEPT !.out = Append(@, view),
                                !.cur = NoCall,
                                !.j = @ + 1,
                                !.pc = IF held.j = Len(held.refs)
                                       THEN "done" ELSE "classify"]
    /\ NodesFrame

NodesNext ==
    \/ \E packet \in NodePacketInputs : UpdateBegin("w1", packet)
    \/ UpdateStore("w1")
    \/ UpdateTouch("w1")
    \/ WallTick
    \/ \E active_only \in BOOLEAN : ListBegin(active_only)
    \/ ListFilter
    \/ ListIterate
    \/ ListClassify
    \/ ListStamp
    \/ ListTypes

SpecNodes == CacheSpecInit /\ [][NodesNext]_vars

----------------------------------------------------------------------------
(* ccm_protocol.py: what Python's str and number conversions do *)

Digits == { "0", "1", "2", "3", "4", "5", "6", "7", "8", "9" }

\* The characters str.strip(), int() and float() treat as white space.
Whitespace == { " ", "\n", "\t" }

RECURSIVE LStrip(_)
LStrip(s) ==
    IF s # << >> /\ Head(s) \in Whitespace THEN LStrip(Tail(s)) ELSE s

RECURSIVE RStrip(_)
RStrip(s) ==
    IF s # << >> /\ s[Len(s)] \in Whitespace
    THEN RStrip(SubSeq(s, 1, Len(s) - 1)) ELSE s

\* str.strip()
Strip(s) == RStrip(LStrip(s))

IsDigits(s) == s # << >> /\ \A i \in DOMAIN s : s[i] \in Digits

DigitVal(c) == CHOOSE d \in 0..9 : DigitChar(d) = c

RECURSIVE StrToNat(_)
StrToNat(s) ==
    IF s = << >> THEN 0
    ELSE 10 * StrToNat(SubSeq(s, 1, Len(s) - 1)) + DigitVal(s[Len(s)])

HasSign(s) == s # << >> /\ Head(s) \in { "+", "-" }
Unsigned(s) == IF HasSign(s) THEN Tail(s) ELSE s
SignOf(s) == IF s # << >> /\ Head(s) = "-" THEN -1 ELSE 1

\* int(s) for a str: white space around, an optional sign, decimal digits.
\* ok is FALSE where int() raises ValueError. (Digit grouping with "_" is
\* not among the inputs of the model.)
ParseInt(s) ==
    LET t == Strip(s)
    IN  IF IsDigits(Unsigned(t))
        THEN [ok |-> TRUE, val |-> SignOf(t) * StrToNat(Unsigned(t))]
        ELSE [ok |-> FALSE]

\* A number as a decimal fraction mant / 10^scale with no trailing zero in
\* the fraction, so that equal numbers are equal records.
RECURSIVE Number(_, _)
Number(mant, scale) ==
    IF mant = 0 THEN [num |-> TRUE, mant |-> 0, scale |-> 0]
    ELSE IF scale > 0 /\ mant % 10 = 0 THEN Number(mant \div 10, scale - 1)
    ELSE [num |-> TRUE, mant |-> mant, scale |-> scale]

\* The position of the first "." of s, 0 when there is none.
DotAt(s) ==
    IF \E i \in DOMAIN s : s[i] = "."
    THEN CHOOSE i \in DOMAIN s : s[i] = "." /\ \A j \in 1..(i - 1) : s[j] # "."
    ELSE 0

\* float(s) for a str: white space around, an optional sign, digits with at
\* most one ".", digits on at least one side of it. ok is FALSE where float()
\* raises ValueError. (Exponents, "inf", "nan" and "_" are not among the
\* inputs of the model.)
ParseFloat(s) ==
    LET t == Strip(s)
        body == Unsigned(t)
        dot == DotAt(body)
        ip == IF dot = 0 THEN body ELSE SubSeq(body, 1, dot - 1)
        fp == IF dot = 0 THEN << >> ELSE SubSeq(body, dot + 1, Len(body))
    IN  IF /\ ip \o fp # << >>
           /\ \A i \in DOMAIN (ip \o fp) : (ip \o fp)[i] \in Digits
        THEN [ok |-> TRUE,
              val |-> Number(SignOf(t) * StrToNat(ip \o fp), Len(fp))]
        ELSE [ok |-> FALSE]

\* str(n) of a float given as mant / 10^scale: always with a fraction.
FloatToStr(mant, scale) ==
    LET n == Number(mant, scale)
        a == IF n.mant < 0 THEN -n.mant ELSE n.mant
        all == NatToStr(a)
        pad == [i \in 1..(n.scale + 1 - Len(all)) |-> "0"] \o all
        digits == IF Len(all) > n.scale THEN all ELSE pad
        cut == Len(digits) - n.scale
    IN  (IF n.mant < 0 THEN << "-" >> ELSE << >>)
        \o SubSeq(digits, 1, cut) \o << "." >>
        \o (IF n.scale = 0 THEN << "0" >> ELSE SubSeq(digits, cut + 1, Len(digits)))

----------------------------------------------------------------------------
(* ccm_protocol.strip_ccm_suffix *)

S_mC == << ".", "m", "C" >>
S_cMC == << ".", "c", "M", "C" >>
S_MC == << ".", "M", "C" >>

\* The alternatives of _CCM_SUFFIX_RE, r"\.(mC|cMC|MC)$".
CcmSuffixes == { S_mC, S_cMC, S_MC }

EndsWith(s, x) ==
    Len(s) >= Len(x) /\ SubSeq(s, Len(s) - Len(x) + 1, Len(s)) = x

\* _CCM_SUFFIX_RE.sub("", ccm_type). In Python "$" matches at the end of the
\* string and also just before a newline that ends the string; the match is
\* removed once, what is left is not scanned again.
strip_ccm_suffix(ccm_type) ==
    IF \E x \in CcmSuffixes : EndsWith(ccm_type, x)
    THEN LET x == CHOOSE x \in CcmSuffixes : EndsWith(ccm_type, x)
         IN  SubSeq(ccm_type, 1, Len(ccm_type) - Len(x))
    ELSE IF \E x \in CcmSuffixes : EndsWith(ccm_type, x \o << "\n" >>)
    THEN LET x == CHOOSE x \in CcmSuffixes : EndsWith(ccm_type, x \o << "\n" >>)
         IN  SubSeq(ccm_type, 1, Len(ccm_type) - Len(x) - 1) \o << "\n" >>
    ELSE ccm_type

----------------------------------------------------------------------------
(* ccm_protocol.py: payloads *)

\* A payload is given by what xml.etree.ElementTree makes of it: not well
\* formed (ET.fromstring raises ParseError), or a tree of elements. An
\* element has a tag, attributes (name -> value), the text before its first
\* child (ET's None, for an element without text, is the empty text: the code
\* reads it as `text or ""`) and children in document order. Attribute
\* values and texts are byte strings: a byte is a character or InvalidByte, a
\* byte that is not valid UTF-8.

InvalidByte == "\\xff"

Elem(tag, attrs, text, children) ==
    [tag |-> tag, attrs |-> attrs, text |-> text, children |-> children]

Document(root) == [wf |-> TRUE, root |-> root]
Malformed(why) == [wf |-> FALSE, why |-> why]

\* bytes.decode("utf-8", errors="ignore") of a byte string: the invalid bytes
\* are dropped, no exception is raised.
Decode(bytes) == SelectSeq(bytes, LAMBDA b : b # InvalidByte)

RECURSIVE DecodeElem(_)
DecodeElem(e) ==
    [tag |-> e.tag,
     attrs |-> [a \in DOMAIN e.attrs |-> Decode(e.attrs[a])],
     text |-> Decode(e.text),
     children |-> [i \in DOMAIN e.children |-> DecodeElem(e.children[i])]]

\* xml_bytes.decode("utf-8", errors="ignore")
DecodePayload(xml_bytes) ==
    IF xml_bytes.wf THEN Document(DecodeElem(xml_bytes.root)) ELSE xml_bytes

\* ET.fromstring(text): the root element, or ParseError.
FromString(text) ==
    IF text.wf THEN [raised |-> "", root |-> text.root]
    ELSE [raised |-> "ParseError"]

\* root.findall(tag): the direct children with that tag, in document order.
FindAll(root, tag) == SelectSeq(root.children, LAMBDA e : e.tag = tag)

\* elem.get(attr, default)
GetAttr(e, attr, default) ==
    IF attr \in DOMAIN e.attrs THEN e.attrs[attr] ELSE default

SENSOR_XML ==
    Document(Elem("UECS", ("ver" :> << "1", ".", "0", "0", "-", "E", "1", "0" >>),
             << >>, << Elem("DATA", ("type" :> << "I", "n", "A", "i", "r", "T", "e", "m", "p", ".", "m", "C" >> @@ "room" :> << "1" >> @@ "region" :> << "1" >> @@ "order" :> << "1" >> @@ "priority" :> << "2", "9" >> @@ "lv" :> << "S" >> @@ "cast" :> << "u", "n", "i" >>),
             << "1", ".", "8" >>, <<  >>) >>))

MULTI_XML ==
    Document(Elem("UECS", ("ver" :> << "1", ".", "0", "0", "-", "E", "1", "0" >>),
             << >>, << Elem("DATA", ("type" :> << "I", "n", "A", "i", "r", "T", "e", "m", "p", ".", "m", "C" >> @@ "room" :> << "1" >> @@ "region" :> << "1" >> @@ "order" :> << "1" >> @@ "priority" :> << "2", "9" >> @@ "lv" :> << "S" >> @@ "cast" :> << "u", "n", "i" >>),
             << "1", ".", "8" >>, <<  >>), Elem("DATA", ("type" :> << "I", "n", "A", "i", "r", "H", "u", "m", "i", "d", ".", "m", "C" >> @@ "room" :> << "1" >> @@ "region" :> << "1" >> @@ "order" :> << "1" >> @@ "priority" :> << "2", "9" >> @@ "lv" :> << "S" >> @@ "cast" :> << "u", "n", "i" >>),
             << "8", "5", ".", "3" >>, <<  >>), Elem("DATA", ("type" :> << "W", "A", "i", "r", "T", "e", "m", "p", ".", "m", "C" >> @@ "room" :> << "1" >> @@ "region" :> << "4", "1" >> @@ "order" :> << "1" >> @@ "priority" :> << "2", "9" >> @@ "lv" :> << "S" >> @@ "cast" :> << "u", "n", "i" >>),
             << "-", "5", ".", "2" >>, <<  >>) >>))

CONTROL_XML ==
    Document(Elem("UECS", ("ver" :> << "1", ".", "0", "0", "-", "E", "1", "0" >>),
             << >>, << Elem("DATA", ("type" :> << "I", "r", "r", "i", "r", "c", "A" >> @@ "room" :> << "2" >> @@ "region" :> << "3" >> @@ "order" :> << "4" >> @@ "priority" :> << "1", "0" >> @@ "lv" :> << "A" >> @@ "cast" :> << "u", "n", "i" >>),
             << "1" >>, <<  >>), Elem("IP", << >>,
             << "1", "9", "2", ".", "1", "6", "8", ".", "1", ".", "7", "0" >>, <<  >>) >>))

SCENARIO_XML ==
    Document(Elem("UECS", << >>,
             << >>, << Elem("DATA", ("type" :> << "I", "n", "A", "i", "r", "T", "e", "m", "p", ".", "m", "C" >> @@ "room" :> << "1" >> @@ "priority" :> << "2", "9" >>),
             << "2", "2", ".", "5" >>, <<  >>) >>))

TEXT_VALUE_XML ==
    Document(Elem("UECS", << >>,
             << >>, << Elem("DATA", ("type" :> << "c", "n", "d", ".", "c", "M", "C" >> @@ "room" :> << "1" >>),
             << "N", "/", "A" >>, <<  >>), Elem("DATA", ("type" :> << "I", "r", "r", "i" >> @@ "room" :> << "1" >>),
             << >>, <<  >>), Elem("DATA", ("type" :> << "I", "n", "A", "i", "r", "T", "e", "m", "p", ".", "m", "C" >> @@ "room" :> << "1" >>),
             << " ", "7", " " >>, <<  >>) >>))

ODD_XML ==
    Document(Elem("a", << >>,
             << >>, << Elem("DATA", ("room" :> << "x" >> @@ "priority" :> << " ", "7", " " >> @@ "order" :> << "1", ".", "0" >>),
             << " ", "1", "0", "\n" >>, <<  >>), Elem("b", << >>,
             << >>, << Elem("DATA", ("type" :> << "I", "n", "A", "i", "r", "T", "e", "m", "p" >>),
             << "3" >>, <<  >>) >>), Elem("DATA", ("type" :> << "I", "n", "A", "i", "r", "T", "e", "m", "p", ".", "m", "C", ".", "m", "C" >> @@ "room" :> << "-", "2" >> @@ "region" :> << >>),
             << "1", ".", "2", ".", "3" >>, <<  >>) >>))

INVALID_BYTES_XML ==
    Document(Elem("UECS", << >>,
             << >>, << Elem("DATA", ("type" :> << "I", "n", InvalidByte, "A", "i", "r", "T", "e", "m", "p", ".", "m", "C" >> @@ "room" :> << InvalidByte, "1" >>),
             << InvalidByte, "1", InvalidByte, "2" >>, <<  >>) >>))

NO_CHILD_XML ==
    Document(Elem("UECS", ("ver" :> << "1", ".", "0", "0", "-", "E", "1", "0" >>),
             << >>, <<  >>))

DATA_ROOT_XML ==
    Document(Elem("DATA", ("type" :> << "I", "n", "A", "i", "r", "T", "e", "m", "p", ".", "m", "C" >>),
             << "5" >>, <<  >>))

PayloadInputs ==
    { SENSOR_XML, MULTI_XML, CONTROL_XML, SCENARIO_XML, TEXT_VALUE_XML, ODD_XML,
      INVALID_BYTES_XML, NO_CHILD_XML, DATA_ROOT_XML,
      Malformed("empty"), Malformed("not XML"), Malformed("truncated"),
      Malformed("undecodable") }

SourceIps == { "", "192.168.1.70", "192.168.1.71" }

----------------------------------------------------------------------------
(* ccm_protocol.parse_ccm_xml *)

\* An outcome is a value, or the exception that left the expression.
Returned(val) == [raised |-> "", val |-> val]
Raised(exc) == [raised |-> exc]

\* try: value = float(raw_value)  except ValueError: value = raw_value
\* A faulty conversion: what is no number becomes 0.0.
FloatOrZero(raw_value) ==
    IF ParseFloat(raw_value).ok THEN ParseFloat(raw_value).val ELSE Number(0, 0)

FloatOrText(raw_value) ==
    IF ParseFloat(raw_value).ok THEN ParseFloat(raw_value).val
    ELSE [num |-> FALSE, text |-> raw_value]

\* _int without its except clause.
IntAttrUnguarded(e, attr, default) ==
    IF attr \notin DOMAIN e.attrs THEN Returned(default)
    ELSE IF ParseInt(e.attrs[attr]).ok THEN Returned(ParseInt(e.attrs[attr]).val)
    ELSE Raised("ValueError")

\* _int(attr, default): int(data_elem.get(attr, default)), the default when
\* int() raises ValueError or TypeError.
IntAttr(e, attr, default) ==
    IF attr \notin DOMAIN e.attrs THEN Returned(default)
    ELSE IF ParseInt(e.attrs[attr]).ok THEN Returned(ParseInt(e.attrs[attr]).val)
    ELSE Returned(default)

LevelS == << "S" >>
LevelA == << "A" >>
CastUni == << "u", "n", "i" >>

DefaultRoom == 1
DefaultRegion == 1
DefaultOrder == 1
DefaultParsedPriority == 29

\* The body of the loop: the CcmPacket of one DATA element.
PacketOfElem(data_elem, source_ip) ==
    LET raw_type == GetAttr(data_elem, "type", << >>)
        raw_value == Strip(data_elem.text)
        room == IntAttr(data_elem, "room", DefaultRoom)
        region == IntAttr(data_elem, "region", DefaultRegion)
        order == IntAttr(data_elem, "order", DefaultOrder)
        priority == IntAttr(data_elem, "priority", DefaultParsedPriority)
        failed == { x \in { room, region, order, priority } : x.raised # "" }
    IN  IF failed # {} THEN Raised((CHOOSE x \in failed : TRUE).raised)
        ELSE Returned(
               [ccm_type |-> strip_ccm_suffix(raw_type),
                raw_type |-> raw_type,
                value |-> FloatOrText(raw_value),
                room |-> room.val,
                region |-> region.val,
                order |-> order.val,
                priority |-> priority.val,
                level |-> GetAttr(data_elem, "lv", LevelS),
                cast |-> GetAttr(data_elem, "cast", CastUni),
                source_ip |-> source_ip])

\* A faulty parser: no try around decode and fromstring.
ParseCaughtNone == { }

\* The exceptions the try around decode and fromstring catches.
ParseCaught == { "ParseError", "UnicodeDecodeError" }

\* A faulty scan: every child of the root is taken for a DATA element.
DataElemsAnyTag(root) == root.children

\* root.findall("DATA")
DataElems(root) == FindAll(root, "DATA")

\* parse_ccm_xml(xml_bytes, source_ip): the list of packets, or the exception
\* that escapes.
parse_ccm_xml(xml_bytes, source_ip) ==
    LET doc == FromString(DecodePayload(xml_bytes))
    IN  IF doc.raised \in ParseCaught THEN Returned(<< >>)
        ELSE IF doc.raised # "" THEN Raised(doc.raised)
        ELSE LET elems == DataElems(doc.root)
                 each == [i \in DOMAIN elems |-> PacketOfElem(elems[i], source_ip)]
                 failed == { i \in DOMAIN each : each[i].raised # "" }
             IN  IF failed # {}
                 THEN Raised(each[CHOOSE i \in failed : \A j \in failed : i <= j].raised)
                 ELSE Returned([i \in DOMAIN each |-> each[i].val])

----------------------------------------------------------------------------
(* ccm_protocol.build_ccm_xml *)

\* The values given to build_ccm_xml: an int, a float (mant / 10^scale), a
\* bool or a str.
IntValue(n) == [t |-> "int", n |-> n]
FloatValue(mant, scale) == [t |-> "float", mant |-> mant, scale |-> scale]
BoolValue(b) == [t |-> "bool", b |-> b]
StrValue(str) == [t |-> "str", str |-> str]

\* A faulty rendering: "%d" % value, which drops the fraction of a float.
FormatValueAsInt(v) ==
    CASE v.t = "int" -> IntToStr(v.n)
      [] v.t = "float" ->
            LET n == Number(v.mant, v.scale)
                a == IF n.mant < 0 THEN -n.mant ELSE n.mant
                whole == a \div (10 ^ n.scale)
            IN  IntToStr(IF n.mant < 0 THEN -whole ELSE whole)
      [] v.t = "bool" -> IF v.b THEN << "1" >> ELSE << "0" >>
      [] v.t = "str" -> v.str

\* f"{value}"
FormatValue(v) ==
    CASE v.t = "int" -> IntToStr(v.n)
      [] v.t = "float" -> FloatToStr(v.mant, v.scale)
      [] v.t = "bool" -> IF v.b THEN << "T", "r", "u", "e" >> ELSE << "F", "a", "l", "s", "e" >>
      [] v.t = "str" -> v.str

\* The template interpolates without escaping: the payload is well formed
\* only if no interpolated string holds a character of markup.
TextMarkup == { "<", "&" }
AttrMarkup == { "<", "&", "\"" }
Plain(str, markup) == \A i \in DOMAIN str : str[i] \notin markup

VerValue == << "1", ".", "0", "0", "-", "E", "1", "0" >>

\* build_ccm_xml(ccm_type, value, room=, region=, order=, priority=, level=,
\* cast=, local_ip=): the bytes of the f-string.
build_ccm_xml(ccm_type, value, room, region, order, priority, level, cast, local_ip) ==
    LET attrs == ("type" :> ccm_type @@ "room" :> IntToStr(room)
                  @@ "region" :> IntToStr(region) @@ "order" :> IntToStr(order)
                  @@ "priority" :> IntToStr(priority)
                  @@ "lv" :> level @@ "cast" :> cast)
        text == FormatValue(value)
        root == Elem("UECS", ("ver" :> VerValue), << >>,
                     << Elem("DATA", attrs, text, << >>),
                        Elem("IP", << >>, local_ip, << >>) >>)
    IN  IF /\ \A a \in DOMAIN attrs : Plain(attrs[a], AttrMarkup)
           /\ Plain(text, TextMarkup)
           /\ Plain(local_ip, TextMarkup)
        THEN Document(root)
        ELSE Malformed("markup in an interpolated string")

----------------------------------------------------------------------------
(* The functions of ccm_protocol.py, called *)

StripInputs ==
    { << "I", "n", "A", "i", "r", "T", "e", "m", "p", ".", "m", "C" >>,
      << "W", "R", "a", "i", "n", "f", "a", "l", "l", "A", "m", "t", ".", "c", "M", "C" >>,
      << "S", "o", "m", "e", "T", "y", "p", "e", ".", "M", "C" >>,
      << "I", "r", "r", "i", "r", "c", "A" >>,
      << "c", "n", "d", ".", "c", "M", "C" >>,
      << >>,
      << ".", "m", "C" >>,
      << "I", "n", "A", "i", "r", "T", "e", "m", "p", ".", "m", "C", ".", "m", "C" >>,
      << "A", ".", "c", "M", "C", ".", "M", "C" >>,
      << "A", ".", "m", "C", "\n" >>,
      << "A", ".", "m", "C", "x" >>,
      << "a", ".", "b" >>,
      << "m", "C" >> }

T_Markup == << "A", "<", "B" >>

BuildTypes == DefaultAllowedActuators \cup { T_CustomA, T_Markup }

BuildValues ==
    { IntValue(0), IntValue(1), IntValue(-1), IntValue(100),
      FloatValue(5, 1), FloatValue(10, 1), FloatValue(0, 0), FloatValue(-225, 1),
      BoolValue(TRUE), BoolValue(FALSE), StrValue(<< "o", "n" >>) }

BuildRooms == { 1, 2, 12 }

\* What _detect_local_ip returns: the address of the interface, or "0.0.0.0".
LocalIps == { << "0", ".", "0", ".", "0", ".", "0" >>,
              << "1", "9", "2", ".", "1", "6", "8", ".", "1", ".", "5" >> }

ProtoFrame == UNCHANGED << senderVars, thr, cacheVars, held, tool, rx >>

\* The functions are pure: each is called once, on a fresh input.
ParseCall(xml_bytes, source_ip) ==
    /\ proto = NoCall
    /\ proto' = [op |-> "parse", xml_bytes |-> xml_bytes, source_ip |-> source_ip,
                 result |-> parse_ccm_xml(xml_bytes, source_ip)]
    /\ ProtoFrame

StripCall(ccm_type) ==
    /\ proto = NoCall
    /\ proto' = [op |-> "strip", ccm_type |-> ccm_type,
                 result |-> strip_ccm_suffix(ccm_type)]
    /\ ProtoFrame

\* build_ccm_xml as the sender calls it: level and cast by default.
BuildCall(ccm_type, value, room, kw, local_ip) ==
    /\ proto = NoCall
    /\ proto' = [op |-> "build", ccm_type |-> ccm_type, value |-> value,
                 room |-> room, kw |-> kw, local_ip |-> local_ip,
                 result |-> build_ccm_xml(ccm_type, value, room, kw.region, kw.order,
                                          kw.priority, LevelA, CastUni, local_ip)]
    /\ ProtoFrame

\* parse_ccm_xml of the bytes just built.
ParseBuilt ==
    /\ proto.op = "build"
    /\ proto' = [op |-> "roundtrip", ccm_type |-> proto.ccm_type,
                 value |-> proto.value, room |-> proto.room, kw |-> proto.kw,
                 local_ip |-> proto.local_ip, built |-> proto.result,
                 result |-> parse_ccm_xml(proto.result, "")]
    /\ ProtoFrame

ProtocolNext ==
    \/ \E xml_bytes \in PayloadInputs, source_ip \in SourceIps :
          ParseCall(xml_bytes, source_ip)
    \/ \E ccm_type \in StripInputs : StripCall(ccm_type)
    \/ \E ccm_type \in BuildTypes, value \in BuildValues, room \in BuildRooms,
          kw \in KwArgs, local_ip \in LocalIps :
          BuildCall(ccm_type, value, room, kw, local_ip)
    \/ ParseBuilt

SpecProtocol == CacheSpecInit /\ [][ProtocolNext]_vars

----------------------------------------------------------------------------
(* CcmReceiver._receive_loop: one datagram is received, parsed and its      *)
(* packets handed to the cache one after another. The loop is the cache's   *)
(* only writer, and between the updates of one datagram there is no await.  *)

MaxReceived == 3    \* packets applied by the receive loop altogether

\* One node reporting the same type twice in a datagram, once with the
\* suffix and once without.
REPEAT_XML ==
    Document(Elem("UECS", << >>, << >>,
        << Elem("DATA", ("type" :> << "I", "n", "A", "i", "r", "T", "e", "m", "p", ".", "m", "C" >> @@ "room" :> << "1" >>), << "2", "0", ".", "0" >>, << >>),
           Elem("DATA", ("type" :> << "I", "n", "A", "i", "r", "T", "e", "m", "p" >> @@ "room" :> << "1" >>), << "2", "5", ".", "5" >>, << >>) >>))

DatagramInputs ==
    { SCENARIO_XML, MULTI_XML, CONTROL_XML, REPEAT_XML, Malformed("not XML") }

\* addr[0] of a received datagram.
AddrInputs == { "192.168.1.70", "192.168.1.71" }

\* SensorCache.update as a whole, on a cache c = (data, nodes, applied),
\* when the wall clock reads `now`.
Updated(c, packet, now) ==
    [data |-> StoreEntry(c.data, << HouseId(packet.room), packet.ccm_type >>,
                         [packet |-> packet, updated_at |-> now]),
     nodes |-> IF packet.source_ip # ""
               THEN TrackNode(c.nodes, packet, now)
               ELSE c.nodes,
     applied |-> Append(c.applied, [packet |-> packet, now |-> now])]

\* A faulty loop: the packets are applied last to first.
RECURSIVE UpdateAllReversed(_, _, _)
UpdateAllReversed(c, packets, now) ==
    IF packets = << >> THEN c
    ELSE Updated(UpdateAllReversed(c, Tail(packets), now), Head(packets), now)

\* for pkt in packets: self.cache.update(pkt)
RECURSIVE UpdateAll(_, _, _)
UpdateAll(c, packets, now) ==
    IF packets = << >> THEN c
    ELSE UpdateAll(Updated(c, Head(packets), now), Tail(packets), now)

\* What one round of the loop does to the cache. An exception of
\* parse_ccm_xml would be logged and the datagram dropped.
ReceiveBody(xml_bytes, addr) ==
    LET source_ip == addr
        res == parse_ccm_xml(xml_bytes, source_ip)
        packets == IF res.raised = "" THEN res.val ELSE << >>
        c == UpdateAll([data |-> data, nodes |-> nodes, applied |-> applied],
                       packets, wall)
    IN  /\ Len(applied) + Len(packets) <= MaxReceived
        /\ data' = c.data
        /\ nodes' = c.nodes
        /\ applied' = c.applied
        /\ proto' = [op |-> "receive", xml_bytes |-> xml_bytes,
                     source_ip |-> source_ip, result |-> res]
        /\ UNCHANGED << wall, upd, senderVars, thr, held, tool >>

ReceiveDatagram(xml_bytes, addr) ==
    /\ ReceiveBody(xml_bytes, addr)
    /\ UNCHANGED rx

ReceiverNext ==
    \/ \E xml_bytes \in DatagramInputs, addr \in AddrInputs :
          ReceiveDatagram(xml_bytes, addr)
    \/ WallTick

SpecReceiver == CacheSpecInit /\ [][ReceiverNext]_vars

----------------------------------------------------------------------------
(* The receive loop, started and stopped: CcmReceiver, an asyncio task that *)
(* stop cancels and awaits, and the bridge's CcmReceiverThread, a thread    *)
(* that polls its _running flag between receives of at most 2 seconds.      *)

MaxDatagrams == 3   \* datagrams the loop receives
MaxErrors == 2      \* socket errors recvfrom raises
MaxLate == 2        \* receives counted after the stop was signalled

LoopDatagrams == { SCENARIO_XML, Malformed("not XML"), Malformed("undecodable") }
LoopAddr == "192.168.1.70"

\* The receiver once started: the socket is open and the loop at pc. got
\* counts the datagrams received, dropped those that gave no packet, errs
\* the socket errors, errAt is got at the latest error, and late counts the
\* receives that returned after the stop was signalled.
Started(impl, pc) ==
    [op |-> "receiver", impl |-> impl, pc |-> pc, sock |-> "open",
     running |-> TRUE, stop |-> "none", got |-> 0, dropped |-> 0,
     errs |-> 0, errAt |-> 0, late |-> 0]

\* A faulty loop: no except clause around the round.
LoopCatchesNothing(exc) == FALSE

\* except asyncio.CancelledError: raise / except Exception: log and sleep.
LoopCatches(exc) == exc # "CancelledError"

\* run of the bridge: except socket.timeout / except OSError around recvfrom
\* only; parsing and updating are outside the try.
ThreadCatches(exc, receiving) == receiving /\ exc \in { "timeout", "OSError" }

\* A faulty loop test: the thread never looks at its flag.
LoopContinuesAlways(r) == TRUE

\* while self._running
LoopContinues(r) == r.running

\* One more receive has returned after the stop was signalled.
Late(r) == IF r.stop = "none" THEN r.late
           ELSE IF r.late < MaxLate THEN r.late + 1 ELSE MaxLate

\* A faulty stop: the socket is closed without awaiting the task.
TaskNotAwaited(r) == TRUE

\* stop: `await self._task` has returned.
TaskAwaited(r) == r.pc = "done"

LoopFrame == UNCHANGED << senderVars, thr, cacheVars, held, proto, tool >>

\* The receiver after a datagram was processed with result res: the loop
\* goes to `next`, or to `failed` when processing raised.
Counted(r, res, next, failed) ==
    [r EXCEPT !.got = @ + 1,
              !.dropped = IF res.raised = "" /\ res.val # << >> THEN @ ELSE @ + 1,
              !.pc = IF res.raised = "" THEN next ELSE failed,
              !.late = Late(r)]

\* CcmReceiver.start: the socket is created and the task started; the task
\* waits in sock_recvfrom.
ReceiverStart ==
    /\ rx = NoCall
    /\ rx' = Started("asyncio", "recv")
    /\ LoopFrame

\* Where a round that raised exc goes: to the pause of the handler that
\* catches it, or out of the loop.
AfterRaise(impl, exc) ==
    IF impl = "asyncio"
    THEN IF LoopCatches(exc) THEN "pause" ELSE "dead"
    ELSE IF ThreadCatches(exc, FALSE) THEN "pause" ELSE "dead"

\* A datagram arrives while the loop waits in its receive call: it is
\* parsed and applied, and the task waits again, or the thread goes back to
\* its loop test. A cancelled task is delivered no datagram: cancel() makes
\* the task's next step raise CancelledError whatever the receive returned.
LoopReceive(xml_bytes, addr) ==
    /\ rx.op = "receiver"
    /\ rx.pc = "recv"
    /\ rx.impl = "asyncio" => rx.stop = "none"
    /\ rx.got < MaxDatagrams
    /\ ReceiveBody(xml_bytes, addr)
    /\ rx' = Counted(rx, proto'.result,
                     IF rx.impl = "asyncio" THEN "recv" ELSE "top",
                     AfterRaise(rx.impl, proto'.result.raised))

\* sock_recvfrom raises OSError: logged, then `await asyncio.sleep(1.0)`.
LoopRecvError ==
    /\ rx.op = "receiver"
    /\ rx.impl = "asyncio"
    /\ rx.pc = "recv"
    /\ rx.stop = "none"
    /\ rx.errs < MaxErrors
    /\ rx' = [rx EXCEPT !.errs = @ + 1, !.errAt = rx.got,
                        !.pc = IF LoopCatches("OSError") THEN "pause" ELSE "dead"]
    /\ LoopFrame

\* The sleep is over: the loop receives again.
LoopPauseOver ==
    /\ rx.op = "receiver"
    /\ rx.impl = "asyncio"
    /\ rx.pc = "pause"
    /\ rx.stop = "none"
    /\ rx' = [rx EXCEPT !.pc = "recv"]
    /\ LoopFrame

\* CcmReceiver.stop, up to its await: self._task.cancel().
ReceiverStop ==
    /\ rx.op = "receiver"
    /\ rx.impl = "asyncio"
    /\ rx.stop = "none"
    /\ rx' = [rx EXCEPT !.stop = "awaiting"]
    /\ LoopFrame

\* The cancelled task is resumed with CancelledError at its await, in
\* sock_recvfrom or in the sleep, and ends.
LoopCancelled ==
    /\ rx.op = "receiver"
    /\ rx.impl = "asyncio"
    /\ rx.stop = "awaiting"
    /\ rx.pc \in { "recv", "pause" }
    /\ rx' = [rx EXCEPT !.pc = "done"]
    /\ LoopFrame

\* CcmReceiver.stop, after its await: self._sock.close().
ReceiverStopFinish ==
    /\ rx.op = "receiver"
    /\ rx.impl = "asyncio"
    /\ rx.stop = "awaiting"
    /\ TaskAwaited(rx)
    /\ rx' = [rx EXCEPT !.sock = "closed", !.stop = "done"]
    /\ LoopFrame

\* CcmReceiverThread.start: run creates the socket and enters its loop.
ThreadStart ==
    /\ rx = NoCall
    /\ rx' = Started("thread", "top")
    /\ LoopFrame

\* while self._running: ... ; sock.close()
ThreadLoopTop ==
    /\ rx.op = "receiver"
    /\ rx.impl = "thread"
    /\ rx.pc = "top"
    /\ rx' = IF LoopContinues(rx) THEN [rx EXCEPT !.pc = "recv"]
             ELSE [rx EXCEPT !.pc = "done", !.sock = "closed"]
    /\ LoopFrame

\* recvfrom raises socket.timeout after 2 seconds: continue.
ThreadTimeout ==
    /\ rx.op = "receiver"
    /\ rx.impl = "thread"
    /\ rx.pc = "recv"
    /\ rx' = [rx EXCEPT !.pc = IF ThreadCatches("timeout", TRUE) THEN "top" ELSE "dead",
                        !.late = Late(rx)]
    /\ LoopFrame

\* recvfrom raises another OSError: logged, time.sleep(1.0), continue.
ThreadRecvError ==
    /\ rx.op = "receiver"
    /\ rx.impl = "thread"
    /\ rx.pc = "recv"
    /\ rx.errs < MaxErrors
    /\ rx' = [rx EXCEPT !.errs = @ + 1, !.errAt = rx.got,
                        !.pc = IF ThreadCatches("OSError", TRUE) THEN "pause" ELSE "dead",
                        !.late = Late(rx)]
    /\ LoopFrame

ThreadPauseOver ==
    /\ rx.op = "receiver"
    /\ rx.impl = "thread"
    /\ rx.pc = "pause"
    /\ rx' = [rx EXCEPT !.pc = "top"]
    /\ LoopFrame

\* CcmReceiverThread.stop: self._running = False.
ThreadStop ==
    /\ rx.op = "receiver"
    /\ rx.impl = "thread"
    /\ rx.stop = "none"
    /\ rx' = [rx EXCEPT !.running = FALSE, !.stop = "signalled"]
    /\ LoopFrame

LoopNext ==
    \/ ReceiverStart
    \/ \E xml_bytes \in LoopDatagrams : LoopReceive(xml_bytes, LoopAddr)
    \/ LoopRecvError
    \/ LoopPauseOver
    \/ ReceiverStop
    \/ LoopCancelled
    \/ ReceiverStopFinish
    \/ ThreadStart
    \/ ThreadLoopTop
    \/ ThreadTimeout
    \/ ThreadRecvError
    \/ ThreadPauseOver
    \/ ThreadStop

\* The steps the event loop or the thread scheduler takes by itself: a sleep
\* ends, a receive times out, a cancelled task or an awaiting stop is
\* resumed, the thread reaches its loop test.
LoopProgress ==
    \/ LoopPauseOver
    \/ LoopCancelled
    \/ ReceiverStopFinish
    \/ ThreadLoopTop
    \/ ThreadTimeout
    \/ ThreadPauseOver

SpecLoop == CacheSpecInit /\ [][LoopNext]_vars

SpecLoopFair == SpecLoop /\ WF_vars(LoopProgress)

----------------------------------------------------------------------------
(* server.set_actuator: the tool, called directly as the tests call it or   *)
(* by the MCP transport from inside its running event loop.                 *)

\* duration_seconds: None is the empty tuple, a number n is << n >>.
NoDuration == << >>

ToolArgs(actuator, state, duration_seconds, house_id) ==
    [actuator |-> actuator, state |-> state, priority |-> 10,
     duration_seconds |-> duration_seconds, house_id |-> house_id]

\* The calls made on the tool, with its default priority=10: an allowed type
\* switched on and off, a type no allowed set holds, a duration within and
\* beyond the irrigation maximum, a second house (another timer key), a
\* house_id that is "h" and no number, and one without the "h".
ToolCallInputs ==
    { ToolArgs(T_Irri, TRUE, NoDuration, << "h", "1" >>),
      ToolArgs(T_Irri, FALSE, NoDuration, << "h", "1" >>),
      ToolArgs(T_IrrircA, TRUE, NoDuration, << "h", "1" >>),
      ToolArgs(T_Irri, TRUE, << 1 >>, << "h", "1" >>),
      ToolArgs(T_Irri, TRUE, << 2 >>, << "h", "1" >>),
      ToolArgs(T_Irri, TRUE, << 1 >>, << "h", "2" >>),
      ToolArgs(T_Irri, FALSE, << 1 >>, << "h", "1" >>),
      ToolArgs(T_Irri, TRUE, NoDuration, << "h", "x" >>),
      ToolArgs(T_Irri, TRUE, << 1 >>, << "h" >>),
      ToolArgs(T_Irri, TRUE, NoDuration, << "x" >>) }

\* house_id.startswith("h")
StartsWithH(s) == s # << >> /\ Head(s) = "h"

\* house_id.replace("h", "")
WithoutH(s) == SelectSeq(s, LAMBDA c : c # "h")

\* room = int(house_id.replace("h", "")) if house_id.startswith("h") else 1
\* ok is FALSE where int() raises ValueError.
RoomOf(house_id) ==
    IF StartsWithH(house_id) THEN ParseInt(WithoutH(house_id))
    ELSE [ok |-> TRUE, val |-> 1]

\* How the call ends, given what the sender did: `except ValueError` turns
\* the sender's three refusals into {"error": str(e)}; an OSError of the
\* socket is not caught.
ToolResult(res, actuator, state, priority, duration_seconds) ==
    IF res.kind \in { "not_allowed", "rate_limited", "duration" }
    THEN Returned([error |-> res])
    ELSE IF res.kind = "oserror"
    THEN Raised("OSError")
    ELSE Returned([status |-> "ok", message |-> res, actuator |-> actuator,
                   state |-> state, priority |-> priority,
                   duration_seconds |-> duration_seconds])

\* loop.run_until_complete runs the loop until the coroutine is done and its
\* done-callback has stopped the loop; the _auto_off tasks whose sleep was
\* over when the loop started are resumed in that last iteration.
DueTasks(ts, now) ==
    { i \in DOMAIN ts : ts[i].state = "sleeping" /\ now >= ts[i].due }

\* No call of the tool is under way.
ToolIdle == IF tool.op = "none" THEN TRUE ELSE tool.pc = "done"

\* loopUsable: asyncio.get_event_loop() gives a loop that is not running;
\* otherwise run_until_complete (or get_event_loop) raises RuntimeError
\* before the coroutine is started.
SetActuatorCall(actuator, state, priority, duration_seconds, house_id, loopUsable, sockOk, lat) ==
    /\ ToolIdle
    /\ calls < MaxCalls
    /\ LET room == RoomOf(house_id)
           value == IF state THEN 1 ELSE 0
           kw == [region |-> 1, order |-> 1, priority |-> priority]
           frame == [op |-> "set_actuator", actuator |-> actuator,
                     state |-> state, priority |-> priority,
                     duration_seconds |-> duration_seconds,
                     house_id |-> house_id, loopUsable |-> loopUsable,
                     sockOk |-> sockOk, pc |-> "done", wake |-> { },
                     result |-> NoCall]
       IN  IF ~room.ok
           THEN /\ tool' = [frame EXCEPT !.result = Raised("ValueError")]
                /\ UNCHANGED << senderVars, thr, cacheVars >>
           ELSE IF duration_seconds = NoDuration
           THEN /\ SendBody(actuator, value, room.val, kw, sockOk, lat)
                /\ tool' = [frame EXCEPT !.result =
                               ToolResult(lastCall'.result, actuator, state,
                                          priority, duration_seconds)]
           ELSE IF ~loopUsable
           THEN /\ tool' = [frame EXCEPT !.result = Raised("RuntimeError")]
                /\ UNCHANGED << senderVars, thr, cacheVars >>
           ELSE /\ SendWithDurationBody(actuator, value, duration_seconds[1],
                                        room.val, kw, sockOk, lat)
                /\ LET due == DueTasks(tasks', mono')
                   IN  tool' = [frame EXCEPT
                           !.pc = IF due = { } THEN "done" ELSE "loop",
                           !.wake = due,
                           !.result = ToolResult(lastCall'.result, actuator,
                                                 state, priority,
                                                 duration_seconds)]
    /\ UNCHANGED << held, proto, rx >>

\* The loop of run_until_complete resumes a task whose sleep is over; the
\* call returns when all of them have run.
LoopWake(i, sockOk, lat) ==
    /\ tool.op = "set_actuator"
    /\ tool.pc = "loop"
    /\ i \in tool.wake
    /\ TaskWakeBody(i, sockOk, lat)
    /\ tool' = [tool EXCEPT !.wake = @ \ { i },
                            !.pc = IF tool.wake = { i } THEN "done" ELSE "loop"]
    /\ UNCHANGED << held, proto, rx >>

\* Time passes between the calls of the tool.
ServerTick ==
    /\ ToolIdle
    /\ Tick

ServerNext ==
    \/ \E a \in ToolCallInputs, loopUsable \in BOOLEAN, sockOk \in BOOLEAN,
          lat \in 0..MaxLatency :
          \* the loop, the socket and the latency are drawn where they are used
          /\ a.duration_seconds = NoDuration => loopUsable
          /\ (~RoomOf(a.house_id).ok \/ ~loopUsable) => (sockOk /\ lat = 0)
          /\ SetActuatorCall(a.actuator, a.state, a.priority, a.duration_seconds,
                             a.house_id, loopUsable, sockOk, lat)
    \/ \E i \in DOMAIN tasks, sockOk \in BOOLEAN, lat \in 0..MaxLatency :
          LoopWake(i, sockOk, lat)
    \/ ServerTick

\* The module's sender: _sender = CcmSender(), or the one a test puts there
\* with another minimum interval.
ServerInit ==
    /\ SenderInit
    /\ limits.allowed_actuators = DefaultAllowedActuators
    /\ limits.min_send_interval_seconds \in { 0, 1 }

SpecServer == ServerInit /\ [][ServerNext]_vars

----------------------------------------------------------------------------
(* Properties of what the reads hand out *)

\* A step in which the caller mutates something reachable from the value a
\* read returned to it.
CallerMutates ==
    /\ held # NoCall
    /\ held'.touched
    /\ UNCHANGED << wall, upd, applied >>

\* Every read of the cache returns after the step what it returned before.
ReadsUnchanged ==
    /\ AllEntries' = AllEntries
    /\ \A house_id \in ViewHouseInputs :
          /\ \A packet \in ViewPacketInputs :
                Get(house_id, packet.ccm_type)' = Get(house_id, packet.ccm_type)
          /\ \A category \in Categories :
                GetByCategory(house_id, category)' = GetByCategory(house_id, category)
    /\ \A active_only \in BOOLEAN, timeout_seconds \in ViewTimeoutInputs :
          ListNodes(active_only, timeout_seconds, wall)'
              = ListNodes(active_only, timeout_seconds, wall)

\* C11: whatever the caller mutates through a value a read returned, the
\* reads of the cache return afterwards what they returned before.
C11_NoSharedState == [][CallerMutates => ReadsUnchanged]_vars

\* C12: as long as the caller leaves it alone, a value returned by
\* get_by_category or list_nodes shows what it showed when it was returned,
\* whatever updates were applied since.
C12_ReadsAreSnapshots ==
    ( /\ held # NoCall
      /\ held.op \in { "get_by_category", "list_nodes" }
      /\ ~held.touched ) =>
        /\ \A j \in DOMAIN held.nodes :
              nodes[held.nodes[j].ref] = held.nodes[j].seen
        /\ \A k \in DOMAIN held.entries :
              IsCurrent(held.entries[k]) => data[k] = held.entries[k].seen

----------------------------------------------------------------------------
(* Properties of the protocol functions *)

Parsed == proto.op \in { "parse", "roundtrip" }

\* The payload given to the parse recorded in proto.
ParsedBytes == IF proto.op = "parse" THEN proto.xml_bytes ELSE proto.built

\* C13: parse_ccm_xml raises nothing: whatever the payload, it returns a
\* list, and the list is empty when the payload is not well-formed XML (empty,
\* no XML, truncated, undecodable).
C13_ParseNeverRaises ==
    Parsed =>
        /\ proto.result.raised = ""
        /\ DOMAIN proto.result.val = 1..Len(proto.result.val)
        /\ ~ParsedBytes.wf => proto.result.val = << >>

\* A payload of undecodable bytes was parsed, into the empty list.
C13_Witness ==
    /\ proto.op = "parse"
    /\ proto.xml_bytes = Malformed("undecodable")
    /\ proto.result = Returned(<< >>)

\* The positions of the child elements of root with the given tag.
ChildPositions(root, tag) ==
    { i \in DOMAIN root.children : root.children[i].tag = tag }

\* The k-th smallest member of a set of positions.
Kth(S, k) == CHOOSE i \in S : Cardinality({ j \in S : j <= i }) = k

\* The type attribute of an element as the parser reads it, "" when absent.
TypeAttr(e) == IF "type" \in DOMAIN e.attrs THEN Decode(e.attrs["type"]) ELSE << >>

\* The packets are those of the elements at the positions S of the root, in
\* document order, each with raw_type the type attribute and ccm_type the
\* type attribute without its suffix.
PacketsOfPositions(S) ==
    /\ Len(proto.result.val) = Cardinality(S)
    /\ \A k \in 1..Cardinality(S) :
          LET e == proto.xml_bytes.root.children[Kth(S, k)]
              pkt == proto.result.val[k]
          IN  /\ pkt.raw_type = TypeAttr(e)
              /\ pkt.ccm_type = strip_ccm_suffix(TypeAttr(e))
              /\ \/ ~EndsWith(TypeAttr(e), S_mC)
                 \/ pkt.ccm_type = SubSeq(TypeAttr(e), 1, Len(TypeAttr(e)) - 3)

\* C14 as stated: for a well-formed payload whose root has N child elements,
\* parse_ccm_xml returns N packets, one per child in document order.
C14_Original ==
    (proto.op = "parse" /\ proto.xml_bytes.wf) =>
        PacketsOfPositions(DOMAIN proto.xml_bytes.root.children)

\* C14, amended: for a well-formed payload whose root has N child elements
\* with the tag DATA, parse_ccm_xml returns exactly N packets, one per DATA
\* child in document order, each with ccm_type the suffix-stripped type
\* attribute and raw_type the unmodified type attribute; children with
\* another tag (such as IP) yield no packet.
C14_PacketPerDataElement ==
    (proto.op = "parse" /\ proto.xml_bytes.wf) =>
        PacketsOfPositions(ChildPositions(proto.xml_bytes.root, "DATA"))

\* A payload with a DATA child, a child of another tag and again a DATA child
\* was parsed.
C14_Witness ==
    /\ proto.op = "parse"
    /\ proto.xml_bytes = ODD_XML
    /\ Len(proto.result.val) = 2

\* C15: strip_ccm_suffix applied to its own result changes nothing, and a
\* string that does not end in .mC, .cMC or .MC is returned unchanged.
C15_StripIdempotent ==
    proto.op = "strip" =>
        /\ strip_ccm_suffix(proto.result) = proto.result
        /\ (\A x \in CcmSuffixes : ~EndsWith(proto.ccm_type, x)) =>
              proto.result = proto.ccm_type

\* The number a value given to build_ccm_xml stands for.
AsNumber(v) ==
    CASE v.t = "int" -> Number(v.n, 0)
      [] v.t = "float" -> Number(v.mant, v.scale)
      [] v.t = "bool" -> Number(IF v.b THEN 1 ELSE 0, 0)

\* The parse of the built bytes is one packet that carries the arguments of
\* the build.
RoundTripHolds ==
    /\ proto.result.raised = ""
    /\ Len(proto.result.val) = 1
    /\ LET pkt == proto.result.val[1]
       IN  /\ pkt.ccm_type = proto.ccm_type
           /\ pkt.value = AsNumber(proto.value)
           /\ pkt.room = proto.room
           /\ pkt.region = proto.kw.region
           /\ pkt.order = proto.kw.order
           /\ pkt.priority = proto.kw.priority
           /\ pkt.level = << "A" >>
           /\ pkt.cast = << "u", "n", "i" >>

C17_ValueIsNumberOrText ==
    (proto.op = "parse" /\ proto.xml_bytes.wf) =>
        LET S == ChildPositions(proto.xml_bytes.root, "DATA")
        IN  \A k \in 1..Len(proto.result.val) :
                LET trimmed == Strip(Decode(proto.xml_bytes.root.children[Kth(S, k)].text))
                    value == proto.result.val[k].value
                IN  IF ParseFloat(trimmed).ok
                    THEN value.num /\ value = ParseFloat(trimmed).val
                    ELSE ~value.num /\ value.text = trimmed

\* A payload was parsed whose values are a text, the empty text and a number
\* with white space around it.
C17_Witness ==
    /\ proto.op = "parse"
    /\ proto.xml_bytes = TEXT_VALUE_XML
    /\ proto.result.val[1].value = [num |-> FALSE, text |-> << "N", "/", "A" >>]
    /\ proto.result.val[2].value = [num |-> FALSE, text |-> << >>]
    /\ proto.result.val[3].value = Number(7, 0)


----------------------------------------------------------------------------
(* Properties of the server's tools *)

\* C18: whatever its arguments, set_actuator returns a success descriptor or
\* an object with an "error" reason; no condition of its arguments, a
\* malformed house_id among them, leaves the call as an exception. (Stated
\* for the calls whose socket works and whose event loop can be run.)
C18_SetActuatorAlwaysAnswers ==
    (/\ tool.op = "set_actuator"
     /\ tool.pc = "done"
     /\ tool.sockOk
     /\ tool.loopUsable)
    => /\ tool.result.raised = ""
       /\ \/ "error" \in DOMAIN tool.result.val
          \/ /\ "status" \in DOMAIN tool.result.val
             /\ tool.result.val.status = "ok"

----------------------------------------------------------------------------
(* Properties of the receive loop *)

\* The packets of the datagram processed last, none when it was dropped.
Received == IF proto.result.raised = "" THEN proto.result.val ELSE << >>

\* The last packet of the datagram for the house and the type of packet i.
LastSuch(packets, i) ==
    LET same == { j \in DOMAIN packets :
                    /\ packets[j].room = packets[i].room
                    /\ packets[j].ccm_type = packets[i].ccm_type }
    IN  packets[CHOOSE j \in same : \A k \in same : k <= j]

\* C19: a datagram from address A carrying packets p1..pn is applied fully
\* and in document order: after the loop has processed it, the n latest
\* updates of the cache are p1..pn in this order, the entry for
\* ("h" + pi.room, pi.type) holds the last such packet of the datagram, and
\* the node of address A lists pi.type.
C19_DatagramFullyApplied ==
    proto.op = "receive" =>
        LET packets == Received
            n == Len(packets)
        IN  /\ Len(applied) >= n
            /\ \A i \in 1..n :
                  /\ applied[Len(applied) - n + i].packet = packets[i]
                  /\ LET got == Get(HouseId(packets[i].room), packets[i].ccm_type)
                     IN  /\ got.found
                         /\ got.entry.packet = LastSuch(packets, i)
                  /\ \E k \in DOMAIN nodes :
                        /\ nodes[k].ip = proto.source_ip
                        /\ packets[i].ccm_type \in nodes[k].ccm_types

\* The scenario: InAirTemp.mC, room 1, value 22.5 from 192.168.1.70 gives a
\* sensor entry InAirTemp = 22.5 in house h1 and a node 192.168.1.70 that
\* lists InAirTemp.
C19_Witness ==
    /\ proto.op = "receive"
    /\ proto.xml_bytes = SCENARIO_XML
    /\ proto.source_ip = "192.168.1.70"
    /\ LET sensors == GetByCategory(<< "h", "1" >>, "sensor")
       IN  /\ T_InAirTemp \in DOMAIN sensors
           /\ sensors[T_InAirTemp].packet.value = Number(225, 1)
    /\ \E n \in Elements(ListNodes(TRUE, DefaultTimeoutSeconds, wall)) :
          n.ip = "192.168.1.70" /\ T_InAirTemp \in n.ccm_types

----------------------------------------------------------------------------
(* Properties of the cache's growth *)

\* A step in which a read returns.
ReadReturns == held = NoCall /\ held' # NoCall

\* C28: the cache only grows: no operation of the cache removes a
\* (house, type) key from the value map, a node from the node map or a type
\* from a node's type set, and the reads change none of them. (What a
\* caller does to the objects a read handed out is no operation of the
\* cache.)
C28_GrowStep ==
    /\ ~CallerMutates =>
          /\ DOMAIN data \subseteq DOMAIN data'
          /\ Len(nodes) <= Len(nodes')
          /\ \A i \in DOMAIN nodes :
                /\ nodes'[i].ip = nodes[i].ip
                /\ nodes[i].ccm_types \subseteq nodes'[i].ccm_types
    /\ ReadReturns => data' = data /\ nodes' = nodes

C28_OnlyGrows == [][C28_GrowStep]_vars

\* A read returned after three updates, one of which overwrote an entry and
\* one of which gave a node its second type.
C28_Witness ==
    /\ held # NoCall
    /\ ~held.touched
    /\ Len(applied) = 3
    /\ Cardinality(DOMAIN data) = 2
    /\ \E i \in DOMAIN nodes : Cardinality(nodes[i].ccm_types) = 2

----------------------------------------------------------------------------
(* Properties of the started and stopped receiver *)

\* The loop has exited and the socket is released.
Stopped == rx.op = "receiver" /\ rx.pc = "done" /\ rx.sock = "closed"

StopSignalled == rx.op = "receiver" /\ rx.stop # "none"

\* A step in which the loop processes a datagram.
RoundStep == rx.op = "receiver" /\ rx'.got = rx.got + 1

\* C25: a datagram that fails to decode changes nothing. When the loop
\* processes a malformed or undecodable datagram, the value map and the node
\* map are unchanged, nothing is applied, and the loop goes on to its next
\* receive (the task waits in sock_recvfrom again, the thread is back at its
\* loop test) without a pause.
C25_DropStep ==
    (RoundStep /\ ~proto'.xml_bytes.wf)
        => /\ data' = data
           /\ nodes' = nodes
           /\ applied' = applied
           /\ proto'.result = Returned(<< >>)
           /\ rx'.dropped = rx.dropped + 1
           /\ rx'.pc = IF rx.impl = "asyncio" THEN "recv" ELSE "top"

C25_DecodeFailureChangesNothing == [][C25_DropStep]_vars

\* A datagram was dropped and a later one was applied.
C25_Witness ==
    /\ rx.op = "receiver"
    /\ rx.dropped >= 1
    /\ rx.got >= 2
    /\ proto.op = "receive"
    /\ proto.xml_bytes = SCENARIO_XML
    /\ applied # << >>

\* C27: the socket is closed only after the receive task has finished. Once
\* the socket is closed the loop has ended, so no receive is in progress, and
\* no receive is started and no datagram processed afterwards.
C27_ClosedMeansFinished ==
    (rx.op = "receiver" /\ rx.sock = "closed") => rx.pc = "done"

C27_ClosedStep ==
    (rx.op = "receiver" /\ rx.sock = "closed")
        => /\ rx'.pc = "done"
           /\ rx'.sock = "closed"
           /\ rx'.got = rx.got
           /\ rx'.errs = rx.errs

C27_CloseAfterTask == []C27_ClosedMeansFinished /\ [][C27_ClosedStep]_vars

\* CcmReceiver.stop has closed the socket of a receiver that had processed
\* datagrams.
C27_Witness ==
    /\ rx.op = "receiver"
    /\ rx.impl = "asyncio"
    /\ rx.stop = "done"
    /\ rx.sock = "closed"
    /\ rx.got >= 1

\* C22: stopping the receiver takes effect. After the stop is signalled
\* (task.cancel(), or _running = False) at most one receive call returns, the
\* loop eventually exits and the socket is released; once the stop has
\* completed, that is the loop has exited and the socket is released, no
\* update of the cache comes from the receiver.
C22_AtMostOneReceive == rx.op = "receiver" => rx.late <= 1

C22_StoppedStep ==
    Stopped => /\ data' = data
               /\ nodes' = nodes
               /\ applied' = applied
               /\ rx' = rx

C22_StopTakesEffect ==
    /\ []C22_AtMostOneReceive
    /\ [][C22_StoppedStep]_vars
    /\ StopSignalled ~> Stopped

\* The thread was signalled while in recvfrom, one more datagram was applied,
\* and the loop exited.
C22_Witness ==
    /\ Stopped
    /\ rx.impl = "thread"
    /\ rx.late = 1
    /\ rx.got >= 1
    /\ applied # << >>

\* C26: the loop ends only through a stop. A socket error is followed by the
\* pause; as long as no stop is signalled the loop is waiting for a datagram
\* (or at its loop test) or pausing before a retry, and the pause ends with
\* the loop receiving again, so that a datagram arriving after an error is
\* processed. (Parsing and applying raise nothing.)
C26_Alive ==
    (rx.op = "receiver" /\ rx.stop = "none") => rx.pc \in { "recv", "top", "pause" }

C26_EndedByStop ==
    (rx.op = "receiver" /\ rx.pc \notin { "recv", "top", "pause" })
        => /\ rx.pc = "done"
           /\ rx.stop # "none"

C26_ErrorStep ==
    ( /\ rx.op = "receiver"
      /\ \/ rx'.errs = rx.errs + 1
         \/ RoundStep /\ proto'.result.raised # "" )
        => /\ rx'.pc = "pause"
           /\ rx'.sock = "open"

C26_LoopSurvivesErrors ==
    /\ [](C26_Alive /\ C26_EndedByStop)
    /\ [][C26_ErrorStep]_vars
    /\ (rx.op = "receiver" /\ rx.pc = "pause")
           ~> (rx.op = "receiver" /\ (rx.pc = "recv" \/ rx.stop # "none"))

\* A datagram was applied after a socket error, with no stop signalled.
C26_Witness ==
    /\ rx.op = "receiver"
    /\ rx.stop = "none"
    /\ rx.errs >= 1
    /\ rx.got > rx.errAt
    /\ proto.op = "receive"
    /\ proto.xml_bytes = SCENARIO_XML
    /\ applied # << >>

----------------------------------------------------------------------------
(* Properties of server.list_nodes *)

\* The updates that took the lock so far, the one holding it included.
Locked ==
    applied \o (IF LockHeld
                THEN LET w == CHOOSE v \in Writers : upd[v].pc = "locked"
                     IN  << [packet |-> upd[w].packet, now |-> upd[w].now] >>
                ELSE << >>)

\* The node map as the first k of these updates leave it.
RECURSIVE NodesAfter(_)
NodesAfter(k) ==
    IF k = 0 THEN << >>
    ELSE IF Locked[k].packet.source_ip = "" THEN NodesAfter(k - 1)
    ELSE TrackNode(NodesAfter(k - 1), Locked[k].packet, Locked[k].now)

\* The states completed updates leave the i-th node in.
AtomicStates(i) ==
    { NodesAfter(k)[i] : k \in { m \in 0..Len(Locked) : i <= Len(NodesAfter(m)) } }

\* The node views list_nodes has rendered.
Views ==
    IF held # NoCall /\ held.op = "server.list_nodes"
    THEN { held.out[j] : j \in DOMAIN held.out }
    ELSE { }

\* C31: each node view list_nodes returns shows one atomic state of the
\* node: the type set (as classified and as listed) and the last_seen that
\* one completed update left, never a mixture of two states or a state in
\* the middle of an update; and the query does not fail on a node that is
\* being updated.
C31_ViewsAreAtomic ==
    /\ \A v \in Views :
          \E n \in AtomicStates(v.ref) :
              /\ v.ip = n.ip
              /\ v.ccm_types = n.ccm_types
              /\ v.classified = n.ccm_types
              /\ v.last_seen = n.last_seen
    /\ (held # NoCall /\ held.op = "server.list_nodes") => held.pc # "raised"

\* C33: the node type of a view is the dominant category of the types read
\* for it, actuator before weather before sensor before other; it is
\* computed by the query and no node record of the cache stores it.
C33_NodeTypeIsDominant ==
    /\ \A v \in Views :
          LET has(c) == \E t \in v.classified : classify_ccm_type(t) = c
          IN  /\ has("actuator") => v.node_type = "actuator"
              /\ (~has("actuator") /\ has("weather")) => v.node_type = "weather"
              /\ (~has("actuator") /\ ~has("weather") /\ has("sensor"))
                    => v.node_type = "sensor"
              /\ (~has("actuator") /\ ~has("weather") /\ ~has("sensor"))
                    => v.node_type = "other"
    /\ \A i \in DOMAIN nodes : DOMAIN nodes[i] = { "ip", "ccm_types", "last_seen" }

\* A node that sent a sensor, a weather and an actuator type was rendered as
\* an actuator node.
C33_Witness ==
    /\ held # NoCall
    /\ held.op = "server.list_nodes"
    /\ held.pc = "done"
    /\ \E v \in Views :
          /\ v.node_type = "actuator"
          /\ { classify_ccm_type(t) : t \in v.classified }
                = { "sensor", "weather", "actuator" }

====
